---- MODULE Spec2Model ----
(***************************************************************************)
(* Model of the Mero revenue pipeline: the historical export               *)
(* (historical_revenue_analysis.py), the daily update                      *)
(* (daily_revenue_analysis.py) and the summary enhancer                    *)
(* (excel_summary_enhancer.py) acting on one persisted workbook.           *)
(*                                                                         *)
(* Conventions.                                                            *)
(*  - Text is modelled by TLA+ strings; a date is the string "YYYY-MM-DD"  *)
(*    and is compared as Python compares str (code point by code point).   *)
(*  - A worksheet cell is a tagged value: None, a str or a number.  A row  *)
(*    of the Raw Data sheet is a tuple of SheetWidth cells.                *)
(*  - Amounts are integers counted in 1/PriceUnit RON, so that             *)
(*    value / 10**scale is exact for every scale in 0..MaxScale.           *)
(*  - An optional value is <<>> (absent) or <<v>> (present).               *)
(***************************************************************************)
EXTENDS Integers, Sequences, FiniteSets, TLC

VARIABLES
    fileExists,          \* revenue_analysis_current.xlsx is on disk
    rawData,             \* data rows of the persisted "Raw Data" sheet
    monthlySummary,      \* persisted "Monthly Summary" sheet (optional)
    categoryTotals,      \* persisted "Category Totals" sheet (optional)
    megaCategoryTotals,  \* persisted "Mega Category Totals" sheet (optional)
    enhancerSheets,      \* persisted sheets of the enhancer (optional)
    revenueForecast,     \* persisted "Revenue Forecast" sheet (optional)
    pc,                  \* "idle", or the script that is running, or "done"
    all_captured_appointments,  \* the running script's captured list
    lastRun,             \* what the run that just finished did
    entry,               \* parser harness: the raw entry handed to the parser
    parsed,              \* parser harness: what parse_appointment returned
    responses,           \* capture harness: the API responses of one run
    handled,             \* capture harness: responses handle_route has seen
    classifier_input,    \* classifier harness: the name to classify
    classified,          \* classifier harness: what extract_category returned
    forecast_input,      \* forecast harness: the monthly data of the store
    run_month,           \* forecast harness: the month in which the run is
    forecast_result,     \* forecast harness: what create_forecast_sheet gave
    harness_input,       \* function harness: what an operation is applied to
    harness_output       \* function harness: what the operation gave

vars == <<fileExists, rawData, monthlySummary, categoryTotals,
          megaCategoryTotals, enhancerSheets, revenueForecast, pc,
          all_captured_appointments, lastRun, entry, parsed,
          responses, handled, classifier_input, classified,
          forecast_input, run_month, forecast_result,
          harness_input, harness_output>>

workbookVars == <<fileExists, rawData, monthlySummary, categoryTotals,
                  megaCategoryTotals, enhancerSheets, revenueForecast>>

runVars == <<pc, all_captured_appointments, lastRun>>

parserVars == <<entry, parsed>>

captureVars == <<responses, handled>>

classifierVars == <<classifier_input, classified>>

forecastVars == <<forecast_input, run_month, forecast_result>>

functionVars == <<harness_input, harness_output>>

harnessVars == <<captureVars, classifierVars, forecastVars, functionVars>>

(***************************************************************************)
(* Bounds of the model.                                                    *)
(***************************************************************************)
MaxBatch == 2
MaxRows == 2
MaxScale == 2
MaxEntries == 2
MaxMonths == 6
MaxHistory == 10
MaxClients == 4

(***************************************************************************)
(* Python values.                                                          *)
(***************************************************************************)
NoneCell == [t |-> "none", s |-> "", n |-> 0]
StrCell(s) == [t |-> "str", s |-> s, n |-> 0]
NumCell(n) == [t |-> "num", s |-> "", n |-> n]

\* a list, evaluated element by element
Strict(seq) == seq \o <<>>

\* bool(value) of a cell value
Truthy(c) ==
    CASE c.t = "none" -> FALSE
      [] c.t = "str" -> c.s # ""
      [] OTHER -> c.n # 0

\* f"{value}" for the values of the first three columns
Format(c) ==
    CASE c.t = "none" -> "None"
      [] c.t = "str" -> c.s
      [] OTHER -> ToString(c.n)

\* ord() of the characters that occur in a date or month string
CharOrd(c) ==
    CASE c = "-" -> 45
      [] c = "0" -> 48 [] c = "1" -> 49 [] c = "2" -> 50 [] c = "3" -> 51
      [] c = "4" -> 52 [] c = "5" -> 53 [] c = "6" -> 54 [] c = "7" -> 55
      [] c = "8" -> 56 [] c = "9" -> 57

RECURSIVE StrLessFrom(_, _, _)
StrLessFrom(a, b, i) ==
    IF i > Len(b) THEN FALSE
    ELSE IF i > Len(a) THEN TRUE
    ELSE LET ca == CharOrd(SubSeq(a, i, i))
             cb == CharOrd(SubSeq(b, i, i))
         IN IF ca < cb THEN TRUE
            ELSE IF ca > cb THEN FALSE
            ELSE StrLessFrom(a, b, i + 1)

\* a < b on str
StrLess(a, b) == StrLessFrom(a, b, 1)

\* str.lower() on one character
LowerChar(c) ==
    CASE c = "A" -> "a" [] c = "B" -> "b" [] c = "C" -> "c" [] c = "D" -> "d"
      [] c = "E" -> "e" [] c = "F" -> "f" [] c = "G" -> "g" [] c = "H" -> "h"
      [] c = "I" -> "i" [] c = "J" -> "j" [] c = "K" -> "k" [] c = "L" -> "l"
      [] c = "M" -> "m" [] c = "N" -> "n" [] c = "O" -> "o" [] c = "P" -> "p"
      [] c = "Q" -> "q" [] c = "R" -> "r" [] c = "S" -> "s" [] c = "T" -> "t"
      [] c = "U" -> "u" [] c = "V" -> "v" [] c = "W" -> "w" [] c = "X" -> "x"
      [] c = "Y" -> "y" [] c = "Z" -> "z"
      [] OTHER -> c

RECURSIVE Lower(_)
Lower(s) ==
    IF Len(s) = 0 THEN ""
    ELSE LowerChar(SubSeq(s, 1, 1)) \o Lower(SubSeq(s, 2, Len(s)))

\* p occurs in s
Contains(s, p) ==
    \E i \in 1..(Len(s) - Len(p) + 1) : SubSeq(s, i, i + Len(p) - 1) = p

\* re.search(pattern, service_name, re.IGNORECASE), the pattern given as the
\* set of the lower-cased literals it denotes
Search(literals, service_name) ==
    \E p \in literals : Contains(Lower(service_name), p)

\* the literals of Ox[iy]gen[ae]r[ae]|Oxygen
OxygenLiterals ==
    {"ox" \o a \o "gen" \o b \o "r" \o c :
        a \in {"i", "y"}, b \in {"a", "e"}, c \in {"a", "e"}} \cup {"oxygen"}

(***************************************************************************)
(* Category classifier.                                                    *)
(***************************************************************************)
daily_categories ==
    << [category |-> "Pensat", pattern |-> {"pensat", "probrows"}],
       [category |-> "Epilat", pattern |-> {"epilat"}],
       [category |-> "Oxygenera", pattern |-> OxygenLiterals],
       [category |-> "Laminare", pattern |-> {"laminare"}],
       [category |-> "Microneedling", pattern |-> {"microneedling", "dermapen"}],
       [category |-> "ProBrows", pattern |-> {"probrows"}],
       [category |-> "Pure Solution", pattern |-> {"pure solution"}],
       [category |-> "Peeling", pattern |-> {"peeling"}],
       [category |-> "Tratament", pattern |-> {"tratament"}] >>

historical_categories ==
    << [category |-> "Pensat", pattern |-> {"pensat"}],
       [category |-> "ProBrows", pattern |-> {"probrows"}],
       [category |-> "Epilat", pattern |-> {"epilat"}],
       [category |-> "Oxygenera", pattern |-> OxygenLiterals],
       [category |-> "Laminare", pattern |-> {"laminare"}],
       [category |-> "Microneedling", pattern |-> {"microneedling"}],
       [category |-> "DermaPen", pattern |-> {"dermapen"}],
       [category |-> "Peeling", pattern |-> {"peeling"}],
       [category |-> "Tratament", pattern |-> {"tratament"}],
       [category |-> "Pure Solution", pattern |-> {"pure solution"}] >>

\* Faulty variant of FirstMatch: the last rule that matches wins.
RECURSIVE LastMatch(_, _, _)
LastMatch(categories, service_name, i) ==
    IF i > Len(categories) THEN "Other"
    ELSE LET later == LastMatch(categories, service_name, i + 1)
         IN IF later # "Other" THEN later
            ELSE IF Search(categories[i].pattern, service_name)
                 THEN categories[i].category
                 ELSE "Other"

\* for category, pattern in categories.items(): the first match returns
RECURSIVE FirstMatch(_, _, _)
FirstMatch(categories, service_name, i) ==
    IF i > Len(categories) THEN "Other"
    ELSE IF Search(categories[i].pattern, service_name)
         THEN categories[i].category
         ELSE FirstMatch(categories, service_name, i + 1)

daily_extract_category(service_name) ==
    FirstMatch(daily_categories, service_name, 1)

historical_extract_category(service_name) ==
    FirstMatch(historical_categories, service_name, 1)

\* the mapping of get_mega_category (the first name is written without its
\* diacritic here)
mega_categories ==
    << [mega |-> "Sprancene", cats |-> {"Pensat", "ProBrows", "Laminare"}],
       [mega |-> "Epilare", cats |-> {"Epilat"}],
       [mega |-> "Tratamente",
        cats |-> {"Oxygenera", "Microneedling", "DermaPen", "Peeling",
                  "Tratament", "Pure Solution"}] >>

RECURSIVE MegaLookup(_, _)
MegaLookup(individual_category, i) ==
    IF i > Len(mega_categories) THEN "Altele"
    ELSE IF individual_category \in mega_categories[i].cats
         THEN mega_categories[i].mega
         ELSE MegaLookup(individual_category, i + 1)

get_mega_category(individual_category) == MegaLookup(individual_category, 1)

MegaCategoryNames == {"Sprancene", "Epilare", "Tratamente", "Altele"}

(***************************************************************************)
(* Appointment parser.                                                     *)
(*                                                                         *)
(* A raw entry is [type, dateStr, client, bookedServices]; dateStr and     *)
(* client are optional.  A booked service is [name, customPrice, price]:   *)
(*   customPrice.kind is "absent" (no such key), "fixed" (type "Fixed",    *)
(*     amount {value, scale}), "other" (a dict of another type) or "null"  *)
(*     (the key is there but its value is not a dict);                     *)
(*   price.kind is "absent", "fixed" (type 1, fixed amount) or "other".    *)
(***************************************************************************)
RECURSIVE Pow(_, _)
Pow(b, e) == IF e = 0 THEN 1 ELSE b * Pow(b, e - 1)

PriceUnit == Pow(10, MaxScale)

RECURSIVE LStrip(_)
LStrip(s) ==
    IF Len(s) > 0 /\ SubSeq(s, 1, 1) = " " THEN LStrip(SubSeq(s, 2, Len(s)))
    ELSE s

RECURSIVE RStrip(_)
RStrip(s) ==
    IF Len(s) > 0 /\ SubSeq(s, Len(s), Len(s)) = " "
    THEN RStrip(SubSeq(s, 1, Len(s) - 1))
    ELSE s

\* str.strip()
Strip(s) == RStrip(LStrip(s))

\* Faulty variant of resolve_price: the custom amount is taken as it stands,
\* its scale is not applied.
resolve_price_unscaled(service) ==
    IF service.customPrice.kind # "absent"
    THEN IF service.customPrice.kind = "fixed"
         THEN service.customPrice.value * PriceUnit
         ELSE 0
    ELSE IF service.price.kind # "absent"
         THEN IF service.price.kind = "fixed"
              THEN service.price.fixed * PriceUnit
              ELSE 0
         ELSE 0

\* The price branch of parse_appointment, in 1/PriceUnit RON.
resolve_price(service) ==
    IF service.customPrice.kind # "absent"
    THEN IF service.customPrice.kind = "fixed"
         THEN LET value == service.customPrice.value
                  scale == service.customPrice.scale
              IN IF scale > 0
                 THEN (value * PriceUnit) \div Pow(10, scale)
                 ELSE value * PriceUnit
         ELSE 0
    ELSE IF service.price.kind # "absent"
         THEN IF service.price.kind = "fixed"
              THEN service.price.fixed * PriceUnit
              ELSE 0
         ELSE 0

\* client_name of parse_appointment
client_name_of(e) ==
    IF e.client # <<>>
    THEN Strip(e.client[1].firstname \o " " \o e.client[1].lastname)
    ELSE ""

\* The dict the daily parser appends for one booked service.
daily_appointment(date_str, service_name, price, client_name) ==
    [date |-> date_str,
     service |-> service_name,
     category |-> daily_extract_category(service_name),
     price |-> price,
     client |-> client_name]

\* The dict the historical parser appends for one booked service.
historical_appointment(date_str, service_name, price, client_name) ==
    [date |-> date_str,
     service |-> service_name,
     category |-> historical_extract_category(service_name),
     mega_category |-> get_mega_category(historical_extract_category(service_name)),
     price |-> price,
     client |-> client_name]

\* custom_price.get(...) raises when customPrice is not a dict; the except
\* clause of parse_appointment then answers None for the whole entry.
Raises(e) ==
    \E i \in 1..Len(e.bookedServices) :
        e.bookedServices[i].customPrice.kind = "null"

NoneResult == [ret |-> "None", appts |-> <<>>]

daily_parse_appointment(e) ==
    IF e.type # 0 THEN NoneResult
    ELSE IF e.dateStr = <<>> \/ e.dateStr = <<"">> THEN NoneResult
    ELSE IF Raises(e) THEN NoneResult
    ELSE [ret |-> "list",
          appts |-> [i \in 1..Len(e.bookedServices) |->
                        daily_appointment(e.dateStr[1],
                                          e.bookedServices[i].name,
                                          resolve_price(e.bookedServices[i]),
                                          client_name_of(e))]]

historical_parse_appointment(e) ==
    IF e.type # 0 THEN NoneResult
    ELSE IF e.dateStr = <<>> \/ e.dateStr = <<"">> THEN NoneResult
    ELSE IF Raises(e) THEN NoneResult
    ELSE [ret |-> "list",
          appts |-> [i \in 1..Len(e.bookedServices) |->
                        historical_appointment(e.dateStr[1],
                                               e.bookedServices[i].name,
                                               resolve_price(e.bookedServices[i]),
                                               client_name_of(e))]]


(***************************************************************************)
(* The persisted workbook.                                                 *)
(***************************************************************************)
\* number of columns of the Raw Data header
SheetWidth == 6

\* What a saved cell holds when the workbook is loaded again: an empty str
\* is written as a cell without value and is read back as None.
PersistCell(c) == IF c.t = "str" /\ c.s = "" THEN NoneCell ELSE c

PersistRow(row) == Strict([j \in 1..SheetWidth |-> PersistCell(row[j])])

PersistRows(rows) == Strict([i \in 1..Len(rows) |-> PersistRow(rows[i])])

\* ws.append(values): the values fill the first columns of a new row
AppendedRow(values) ==
    values \o [j \in 1..(SheetWidth - Len(values)) |-> NoneCell]

\* key = f"{row[0]}|{row[1]}|{row[2]}"
row_key(row) ==
    Format(row[1]) \o "|" \o Format(row[2]) \o "|" \o Format(row[3])

\* Faulty variant of appt_key: the price is part of the key.
appt_key_with_price(appt) ==
    appt.date \o "|" \o appt.client \o "|" \o appt.service
              \o "|" \o ToString(appt.price)

\* key = f"{appt['date']}|{appt['client']}|{appt['service']}"
appt_key(appt) == appt.date \o "|" \o appt.client \o "|" \o appt.service

load_existing_appointments(exists, rows) ==
    IF ~exists THEN {}
    ELSE {row_key(rows[i]) : i \in {k \in 1..Len(rows) : Truthy(rows[k][1])}}

\* the loop of run() that keeps the captured appointments whose key is new
RECURSIVE filter_new(_, _, _)
filter_new(captured, existing_keys, i) ==
    IF i > Len(captured) THEN <<>>
    ELSE IF appt_key(captured[i]) \notin existing_keys
         THEN <<captured[i]>> \o filter_new(captured, existing_keys, i + 1)
         ELSE filter_new(captured, existing_keys, i + 1)

\* Faulty variant of insert_by_date: an appointment goes in front of the
\* appointments of its own date, so the sort is not stable.
RECURSIVE insert_by_date_unstable(_, _)
insert_by_date_unstable(x, sorted) ==
    IF sorted = <<>> THEN <<x>>
    ELSE IF ~StrLess(Head(sorted).date, x.date)
         THEN <<x>> \o sorted
         ELSE <<Head(sorted)>> \o insert_by_date_unstable(x, Tail(sorted))

\* sorted(appointments, key=lambda x: x["date"]): a stable sort
RECURSIVE insert_by_date(_, _)
insert_by_date(x, sorted) ==
    IF sorted = <<>> THEN <<x>>
    ELSE IF StrLess(x.date, Head(sorted).date)
         THEN <<x>> \o sorted
         ELSE <<Head(sorted)>> \o insert_by_date(x, Tail(sorted))

RECURSIVE sorted_by_date_from(_, _, _)
sorted_by_date_from(appts, i, acc) ==
    IF i > Len(appts) THEN acc
    ELSE sorted_by_date_from(appts, i + 1, insert_by_date(appts[i], acc))

sorted_by_date(appts) == sorted_by_date_from(appts, 1, <<>>)

\* the list the daily script appends for one appointment
daily_row_values(appt) ==
    << StrCell(appt.date), StrCell(appt.client), StrCell(appt.service),
       StrCell(appt.category), NumCell(appt.price) >>

\* the list the historical script appends for one appointment
historical_row_values(appt) ==
    << StrCell(appt.date), StrCell(appt.client), StrCell(appt.service),
       StrCell(appt.category), StrCell(appt.mega_category),
       NumCell(appt.price) >>

(***************************************************************************)
(* Aggregation.  A group table is the list of [key, count, revenue] in     *)
(* the order in which the keys were first met (dict insertion order).      *)
(***************************************************************************)
add_to_group(stats, key, price) ==
    IF \E j \in 1..Len(stats) : stats[j].key = key
    THEN Strict([j \in 1..Len(stats) |->
                    IF stats[j].key = key
                    THEN [key |-> key, count |-> stats[j].count + 1,
                          revenue |-> stats[j].revenue + price]
                    ELSE stats[j]])
    ELSE Append(stats, [key |-> key, count |-> 1, revenue |-> price])

RECURSIVE group_stats_from(_, _, _)
group_stats_from(pairs, i, acc) ==
    IF i > Len(pairs) THEN acc
    ELSE group_stats_from(pairs, i + 1,
                          add_to_group(acc, pairs[i].key, pairs[i].price))

group_stats(pairs) == group_stats_from(pairs, 1, <<>>)

\* sorted(items, key=revenue, reverse=True): stable, largest revenue first
RECURSIVE insert_by_revenue_desc(_, _)
insert_by_revenue_desc(x, sorted) ==
    IF sorted = <<>> THEN <<x>>
    ELSE IF x.revenue > Head(sorted).revenue
         THEN <<x>> \o sorted
         ELSE <<Head(sorted)>> \o insert_by_revenue_desc(x, Tail(sorted))

RECURSIVE sorted_by_revenue_desc_from(_, _, _)
sorted_by_revenue_desc_from(stats, i, acc) ==
    IF i > Len(stats) THEN acc
    ELSE sorted_by_revenue_desc_from(stats, i + 1,
                                     insert_by_revenue_desc(stats[i], acc))

sorted_by_revenue_desc(stats) == sorted_by_revenue_desc_from(stats, 1, <<>>)

RECURSIVE sum_field_count(_)
sum_field_count(stats) ==
    IF stats = <<>> THEN 0 ELSE Head(stats).count + sum_field_count(Tail(stats))

RECURSIVE sum_field_revenue(_)
sum_field_revenue(stats) ==
    IF stats = <<>> THEN 0
    ELSE Head(stats).revenue + sum_field_revenue(Tail(stats))

\* date_obj.strftime("%Y-%m") of a "YYYY-MM-DD" date
month_key(date) == SubSeq(date, 1, 7)

\* int() of a string of decimal digits; -1 for any other string
RECURSIVE DigitsValue(_, _)
DigitsValue(s, acc) ==
    IF s = "" THEN acc
    ELSE LET c == SubSeq(s, 1, 1)
         IN IF c \in {"0", "1", "2", "3", "4", "5", "6", "7", "8", "9"}
            THEN DigitsValue(SubSeq(s, 2, Len(s)), 10 * acc + (CharOrd(c) - 48))
            ELSE -1

ToInt(s) == IF s = "" THEN -1 ELSE DigitsValue(s, 0)

DaysInMonth(year, month) ==
    IF month \in {4, 6, 9, 11} THEN 30
    ELSE IF month = 2
         THEN (IF year % 4 = 0 /\ (year % 100 # 0 \/ year % 400 = 0)
               THEN 29 ELSE 28)
         ELSE 31

\* datetime.strptime(date, "%Y-%m-%d") succeeds on a "YYYY-MM-DD" string
strptime_ok(date) ==
    /\ Len(date) = 10
    /\ SubSeq(date, 5, 5) = "-"
    /\ SubSeq(date, 8, 8) = "-"
    /\ LET year == ToInt(SubSeq(date, 1, 4))
           month == ToInt(SubSeq(date, 6, 7))
           day == ToInt(SubSeq(date, 9, 10))
       IN /\ year >= 1
          /\ month \in 1..12
          /\ day >= 1
          /\ day <= DaysInMonth(year, month)

\* sorted(keys) on str keys
RECURSIVE insert_str(_, _)
insert_str(x, sorted) ==
    IF sorted = <<>> THEN <<x>>
    ELSE IF StrLess(x, Head(sorted))
         THEN <<x>> \o sorted
         ELSE <<Head(sorted)>> \o insert_str(x, Tail(sorted))

RECURSIVE sorted_strs_from(_, _, _)
sorted_strs_from(keys, i, acc) ==
    IF i > Len(keys) THEN acc
    ELSE sorted_strs_from(keys, i + 1, insert_str(keys[i], acc))

\* the keys of a group table
group_keys(stats) == Strict([j \in 1..Len(stats) |-> stats[j].key])

RECURSIVE select_month(_, _, _)
select_month(appts, month, i) ==
    IF i > Len(appts) THEN <<>>
    ELSE IF month_key(appts[i].date) = month
         THEN <<appts[i]>> \o select_month(appts, month, i + 1)
         ELSE select_month(appts, month, i + 1)

category_pairs(appts) ==
    Strict([i \in 1..Len(appts) |->
               [key |-> appts[i].category, price |-> appts[i].price]])

mega_pairs(appts) ==
    Strict([i \in 1..Len(appts) |->
               [key |-> appts[i].mega_category, price |-> appts[i].price]])

month_pairs(appts) ==
    Strict([i \in 1..Len(appts) |->
               [key |-> month_key(appts[i].date), price |-> appts[i].price]])

\* The "Monthly Summary" sheet: per month in ascending order, the category
\* rows by descending revenue and the month total row.
monthly_summary_sheet(appts) ==
    LET months == sorted_strs_from(group_keys(group_stats(month_pairs(appts))),
                                   1, <<>>)
    IN Strict([m \in 1..Len(months) |->
          LET categories ==
                  group_stats(category_pairs(select_month(appts, months[m], 1)))
          IN [month |-> months[m],
              rows |-> sorted_by_revenue_desc(categories),
              month_total |-> sum_field_revenue(categories),
              month_total_count |-> sum_field_count(categories)]])

(***************************************************************************)
(* Fractions.  A fraction is [n, d] with d > 0 in lowest terms; the        *)
(* floating-point values of the code are modelled by the fractions they    *)
(* approximate.                                                            *)
(***************************************************************************)
Abs(x) == IF x < 0 THEN -x ELSE x

RECURSIVE Gcd(_, _)
Gcd(a, b) == IF b = 0 THEN a ELSE Gcd(b, a % b)

Frac(n, d) ==
    LET g == Gcd(Abs(n), Abs(d))
        sign == IF d < 0 THEN -1 ELSE 1
    IN [n |-> sign * (n \div g), d |-> sign * (d \div g)]

FracInt(k) == [n |-> k, d |-> 1]

FracAdd(a, b) == Frac(a.n * b.d + b.n * a.d, a.d * b.d)

FracMul(a, b) ==
    LET x == Frac(a.n, b.d)
        y == Frac(b.n, a.d)
    IN Frac(x.n * y.n, x.d * y.d)

FracLess(a, b) == a.n * b.d < b.n * a.d

\* as FracMin, without the clamp toward the second value
FirstOf(a, b) == a

FracMin(a, b) == IF FracLess(b, a) THEN b ELSE a

FracMax(a, b) == IF FracLess(a, b) THEN b ELSE a

\* round(x): to the nearest integer, a tie to the even one
RoundHalfEven(x) ==
    LET q == x.n \div x.d
        r == x.n - q * x.d
    IN IF 2 * r < x.d THEN q
       ELSE IF 2 * r > x.d THEN q + 1
       ELSE IF q % 2 = 0 THEN q ELSE q + 1

\* f"{percent:.1f}%" of a row of a totals sheet, in tenths of a percent
percent_of(revenue, grand_total_revenue) ==
    IF grand_total_revenue > 0
    THEN RoundHalfEven(Frac(revenue * 1000, grand_total_revenue))
    ELSE 0

\* the "% of Revenue" cells of the rows of a totals sheet
percent_column(rows, grand_total_revenue) ==
    Strict([j \in 1..Len(rows) |->
               percent_of(rows[j].revenue, grand_total_revenue)])

\* the "% of Revenue" cell of the GRAND TOTAL row: the text "100.0%"
GrandTotalPercent == 1000

\* The "Category Totals" sheet: the category rows by descending revenue and
\* the GRAND TOTAL row.
category_totals_sheet(appts) ==
    LET category_totals == group_stats(category_pairs(appts))
        rows == sorted_by_revenue_desc(category_totals)
        grand_total_revenue == sum_field_revenue(category_totals)
    IN [rows |-> rows,
        percent |-> percent_column(rows, grand_total_revenue),
        grand_total_count |-> sum_field_count(category_totals),
        grand_total_revenue |-> grand_total_revenue,
        grand_total_percent |-> GrandTotalPercent]

\* The "Mega Category Totals" sheet of the historical export.
mega_category_totals_sheet(appts) ==
    LET mega_category_totals == group_stats(mega_pairs(appts))
        rows == sorted_by_revenue_desc(mega_category_totals)
        grand_total_revenue == sum_field_revenue(mega_category_totals)
    IN [rows |-> rows,
        percent |-> percent_column(rows, grand_total_revenue),
        grand_total_count |-> sum_field_count(mega_category_totals),
        grand_total_revenue |-> grand_total_revenue,
        grand_total_percent |-> GrandTotalPercent]


(***************************************************************************)
(* rebuild_summary_sheets of the daily script.                             *)
(***************************************************************************)
\* float(row[4]) raises ValueError on text that is not a number; the only
\* text a Raw Data row holds in its fifth cell is a mega-category name.
rebuild_raises(rows) ==
    \E i \in 1..Len(rows) :
        Truthy(rows[i][1]) /\ rows[i][5].t = "str" /\ rows[i][5].s # ""

\* Faulty variant of rebuild_all_appts: the price is read from the column the
\* header calls Price (RON).
RECURSIVE rebuild_all_appts_by_header(_, _)
rebuild_all_appts_by_header(rows, i) ==
    IF i > Len(rows) THEN <<>>
    ELSE IF Truthy(rows[i][1])
         THEN << [date |-> Format(rows[i][1]),
                  client |-> rows[i][2],
                  service |-> rows[i][3],
                  category |-> rows[i][4].s,
                  price |-> IF Truthy(rows[i][6]) THEN rows[i][6].n ELSE 0] >>
              \o rebuild_all_appts_by_header(rows, i + 1)
         ELSE rebuild_all_appts_by_header(rows, i + 1)

\* all_appts of rebuild_summary_sheets, read from the rows of Raw Data
RECURSIVE rebuild_all_appts(_, _)
rebuild_all_appts(rows, i) ==
    IF i > Len(rows) THEN <<>>
    ELSE IF Truthy(rows[i][1])
         THEN << [date |-> Format(rows[i][1]),
                  client |-> rows[i][2],
                  service |-> rows[i][3],
                  category |-> rows[i][4].s,
                  price |-> IF Truthy(rows[i][5]) THEN rows[i][5].n ELSE 0] >>
              \o rebuild_all_appts(rows, i + 1)
         ELSE rebuild_all_appts(rows, i + 1)

(***************************************************************************)
(* The summary enhancer.  pandas reads the Raw Data sheet by its header:   *)
(* Date is the first column, Client the second, Price (RON) the sixth; a   *)
(* cell without value is NaN, which sum() skips and count() does not count.*)
(***************************************************************************)
price_column(row) == IF row[6].t = "num" THEN row[6].n ELSE 0

RECURSIVE frame_pairs(_, _, _)
frame_pairs(rows, by_month, i) ==
    IF i > Len(rows) THEN <<>>
    ELSE IF Truthy(rows[i][1])
         THEN << [key |-> IF by_month THEN month_key(Format(rows[i][1]))
                          ELSE Format(rows[i][1]),
                  price |-> price_column(rows[i]),
                  priced |-> IF rows[i][6].t = "num" THEN 1 ELSE 0,
                  booked |-> IF rows[i][2].t = "none" THEN 0 ELSE 1] >>
              \o frame_pairs(rows, by_month, i + 1)
         ELSE frame_pairs(rows, by_month, i + 1)

RECURSIVE count_field(_, _, _)
count_field(pairs, key, booked) ==
    IF pairs = <<>> THEN 0
    ELSE (IF Head(pairs).key = key
          THEN (IF booked THEN Head(pairs).booked ELSE Head(pairs).priced)
          ELSE 0)
         + count_field(Tail(pairs), key, booked)

RECURSIVE sum_price(_, _)
sum_price(pairs, key) ==
    IF pairs = <<>> THEN 0
    ELSE (IF Head(pairs).key = key THEN Head(pairs).price ELSE 0)
         + sum_price(Tail(pairs), key)

\* create_daily_summary: per date in ascending order, the summed revenue and
\* the number of priced services
create_daily_summary(rows) ==
    LET pairs == frame_pairs(rows, FALSE, 1)
        dates == sorted_strs_from(group_keys(group_stats(pairs)), 1, <<>>)
    IN Strict([d \in 1..Len(dates) |->
          [date |-> dates[d],
           revenue |-> sum_price(pairs, dates[d]),
           services |-> count_field(pairs, dates[d], FALSE)]])

RECURSIVE SumInts(_)
SumInts(xs) == IF xs = <<>> THEN 0 ELSE Head(xs) + SumInts(Tail(xs))

\* the rows of the frame that have a value in a column, keyed by it
RECURSIVE column_pairs(_, _, _)
column_pairs(rows, col, i) ==
    IF i > Len(rows) THEN <<>>
    ELSE IF rows[i][col].t # "none"
         THEN << [key |-> Format(rows[i][col]),
                  price |-> price_column(rows[i])] >>
              \o column_pairs(rows, col, i + 1)
         ELSE column_pairs(rows, col, i + 1)

\* what a division of two pandas columns gives: a number, rounded to some
\* digits, or NaN for 0 / 0, or an infinity for x / 0
NaN == [t |-> "nan"]
Infinity == [t |-> "inf"]

pandas_ratio(n, d, digits) ==
    IF d = 0 THEN (IF n = 0 THEN NaN ELSE Infinity)
    ELSE [t |-> "num",
          n |-> RoundHalfEven(FracMul(Frac(n, d), FracInt(Pow(10, digits))))]

\* revenue of each group over the revenue of all groups, rounded to 4 digits;
\* the groups are in the order of their first row
revenue_ratios(pairs) ==
    LET keys == group_keys(group_stats(pairs))
        revenues == Strict([k \in 1..Len(keys) |-> sum_price(pairs, keys[k])])
        total_revenue == SumInts(revenues)
    IN Strict([k \in 1..Len(keys) |->
          [key |-> keys[k],
           revenue |-> revenues[k],
           ratio |-> pandas_ratio(revenues[k], total_revenue, 4)]])

\* "Revenue Contribution (%)" of create_service_analysis, per service
create_service_analysis(rows) == revenue_ratios(column_pairs(rows, 3, 1))

RECURSIVE insert_int(_, _)
insert_int(x, sorted) ==
    IF sorted = <<>> THEN <<x>>
    ELSE IF x < Head(sorted) THEN <<x>> \o sorted
         ELSE <<Head(sorted)>> \o insert_int(x, Tail(sorted))

RECURSIVE sorted_ints_from(_, _, _)
sorted_ints_from(xs, i, acc) ==
    IF i > Len(xs) THEN acc
    ELSE sorted_ints_from(xs, i + 1, insert_int(xs[i], acc))

\* series.quantile(q) of a non-empty column, q = num / 10: the value at the
\* position (n - 1) * q of the sorted column, interpolated linearly between
\* its two neighbours
quantile(xs, num) ==
    LET srt == sorted_ints_from(xs, 1, <<>>)
        h == Frac((Len(srt) - 1) * num, 10)
        lo == h.n \div h.d
        below == srt[lo + 1]
        above == srt[IF lo + 2 > Len(srt) THEN lo + 1 ELSE lo + 2]
    IN FracAdd(FracInt(below),
               FracMul(Frac(h.n - lo * h.d, h.d), FracInt(above - below)))

\* as np_select, but a later true condition overrides an earlier one
select_last_true(conditions, choices, default) ==
    IF \E j \in 1..Len(conditions) : conditions[j]
    THEN choices[CHOOSE j \in 1..Len(conditions) :
                    /\ conditions[j]
                    /\ \A k \in (j + 1)..Len(conditions) : ~conditions[k]]
    ELSE default

\* np.select(conditions, choices, default) for one element: the choice of
\* the first condition that is true
np_select(conditions, choices, default) ==
    IF \E j \in 1..Len(conditions) : conditions[j]
    THEN choices[CHOOSE j \in 1..Len(conditions) :
                    /\ conditions[j]
                    /\ \A k \in 1..(j - 1) : ~conditions[k]]
    ELSE default

\* "Client Tier" of create_client_analysis for a total spend, within the
\* column total_spent of all clients
client_tier(total, total_spent) ==
    np_select(<< ~FracLess(FracInt(total), quantile(total_spent, 8)),
                 ~FracLess(FracInt(total), quantile(total_spent, 5)),
                 ~FracLess(FracInt(total), quantile(total_spent, 2)) >>,
              <<"VIP", "Regular", "Occasional">>, "New/Low")

\* create_client_analysis: per client the visits, the total spend and the
\* tier; rows without a client are in no group; the order of the rows of the
\* sheet is not kept
create_client_analysis(rows) ==
    LET pairs == column_pairs(rows, 2, 1)
        keys == group_keys(group_stats(pairs))
        total_spent == Strict([k \in 1..Len(keys) |->
                                  sum_price(pairs, keys[k])])
    IN {[client |-> keys[k],
         total_spent |-> total_spent[k],
         tier |-> client_tier(total_spent[k], total_spent)] :
           k \in 1..Len(keys)}

\* int(yearmonth.split("-")) of a "YYYY-MM" label
YearOf(yearmonth) == ToInt(SubSeq(yearmonth, 1, 4))
MonthOf(yearmonth) == ToInt(SubSeq(yearmonth, 6, 7))

\* the days of the year before the first of a month
RECURSIVE days_before_month(_, _)
days_before_month(year, month) ==
    IF month <= 1 THEN 0
    ELSE DaysInMonth(year, month - 1) + days_before_month(year, month - 1)

\* date.timetuple().tm_yday of a "YYYY-MM-DD" date
day_of_year(date) ==
    days_before_month(YearOf(date), MonthOf(date)) + ToInt(SubSeq(date, 9, 10))

\* date.toordinal(): the days since 0001-01-01, which is day 1
to_ordinal(date) ==
    LET y == YearOf(date) - 1
    IN 365 * y + y \div 4 - y \div 100 + y \div 400 + day_of_year(date)

\* date.isoweekday(): 1 for Monday to 7 for Sunday
iso_weekday(date) == ((to_ordinal(date) - 1) % 7) + 1

\* the number of ISO weeks of a year: the week of its December 28
weeks_in_year(year) ==
    LET dec28 == ToString(year) \o "-12-28"
    IN (day_of_year(dec28) - iso_weekday(dec28) + 10) \div 7

\* dt.isocalendar().week: the number of the ISO week a date lies in
iso_week(date) ==
    LET w == (day_of_year(date) - iso_weekday(date) + 10) \div 7
    IN IF w < 1 THEN weeks_in_year(YearOf(date) - 1)
       ELSE IF w > weeks_in_year(YearOf(date)) THEN 1
       ELSE w

\* the "Year" and "Week" columns of _prepare_raw_data and the price, of the
\* rows with a date
RECURSIVE week_pairs(_, _)
week_pairs(rows, i) ==
    IF i > Len(rows) THEN <<>>
    ELSE IF rows[i][1].t # "none"
         THEN << [key |-> <<YearOf(Format(rows[i][1])),
                           iso_week(Format(rows[i][1]))>>,
                  date |-> Format(rows[i][1]),
                  price |-> price_column(rows[i])] >>
              \o week_pairs(rows, i + 1)
         ELSE week_pairs(rows, i + 1)

\* create_weekly_summary: per group of Year and Week the first and the last
\* date and the revenue; the order of the rows of the sheet is not kept
create_weekly_summary(rows) ==
    LET pairs == week_pairs(rows, 1)
        dates_of(key) == {pairs[i].date : i \in {j \in 1..Len(pairs) :
                                                   pairs[j].key = key}}
    IN {[year |-> key[1],
         week |-> key[2],
         week_start |-> CHOOSE d \in dates_of(key) :
                            \A e \in dates_of(key) : ~StrLess(e, d),
         week_end |-> CHOOSE d \in dates_of(key) :
                          \A e \in dates_of(key) : ~StrLess(d, e),
         revenue |-> sum_price(pairs, key)] :
           key \in {pairs[i].key : i \in 1..Len(pairs)}}

\* "Revenue Share (%)" of create_mega_category_analysis, per mega-category
create_mega_category_analysis(rows) == revenue_ratios(column_pairs(rows, 5, 1))

\* the sheets add_summary_sheets writes
summary_sheets(rows) ==
    [daily_summary |-> create_daily_summary(rows),
     service_analysis |-> create_service_analysis(rows),
     mega_category_analysis |-> create_mega_category_analysis(rows),
     client_analysis |-> create_client_analysis(rows)]

\* monthly_data of create_forecast_sheet: per month in ascending order, the
\* summed revenue and the number of rows that name a client
forecast_monthly_data(rows) ==
    LET pairs == frame_pairs(rows, TRUE, 1)
        months == sorted_strs_from(group_keys(group_stats(pairs)), 1, <<>>)
    IN Strict([m \in 1..Len(months) |->
          [month |-> months[m],
           revenue |-> sum_price(pairs, months[m]),
           bookings |-> count_field(pairs, months[m], TRUE)]])

\* twice the median of a non-empty list of integers
twice_median(xs) ==
    LET srt == sorted_ints_from(xs, 1, <<>>)
        n == Len(srt)
    IN IF n % 2 = 1 THEN 2 * srt[(n + 1) \div 2]
       ELSE srt[n \div 2] + srt[n \div 2 + 1]

RECURSIVE select_full_months(_, _, _)
select_full_months(monthly_data, twice_med, i) ==
    IF i > Len(monthly_data) THEN <<>>
    ELSE IF 4 * monthly_data[i].bookings >= twice_med
         THEN <<monthly_data[i]>>
              \o select_full_months(monthly_data, twice_med, i + 1)
         ELSE select_full_months(monthly_data, twice_med, i + 1)

\* the partial-month filter of create_forecast_sheet
remove_partial_months(monthly_data) ==
    IF Len(monthly_data) >= 3
    THEN LET bookings == Strict([i \in 1..Len(monthly_data) |->
                                    monthly_data[i].bookings])
             full_months == select_full_months(monthly_data,
                                               twice_median(bookings), 1)
         IN IF Len(full_months) >= 3 THEN full_months
            ELSE Tail(monthly_data)
    ELSE monthly_data

\* months of data a forecast needs
MinForecastMonths == 6

(***************************************************************************)
(* Forecast arithmetic, on the fractions defined with the totals sheets.   *)
(***************************************************************************)
\* round(amount, 2) of an amount counted in 1/PriceUnit RON, in 1/100 RON
RoundAmount(x) == RoundHalfEven(FracMul(x, Frac(100, PriceUnit)))

\* round(rate, 4), in 1/10000
RoundRate(x) == RoundHalfEven(FracMul(x, FracInt(10000)))

\* series.tail(k)
TailOf(xs, k) ==
    IF Len(xs) <= k THEN xs ELSE SubSeq(xs, Len(xs) - k + 1, Len(xs))

\* series.mean()
MeanOf(xs) == Frac(SumInts(xs), Len(xs))

RECURSIVE insert_frac(_, _)
insert_frac(x, sorted) ==
    IF sorted = <<>> THEN <<x>>
    ELSE IF FracLess(x, Head(sorted)) THEN <<x>> \o sorted
         ELSE <<Head(sorted)>> \o insert_frac(x, Tail(sorted))

RECURSIVE sorted_fracs_from(_, _, _)
sorted_fracs_from(xs, i, acc) ==
    IF i > Len(xs) THEN acc
    ELSE sorted_fracs_from(xs, i + 1, insert_frac(xs[i], acc))

\* np.median of a non-empty list of fractions
median_of_fracs(xs) ==
    LET srt == sorted_fracs_from(xs, 1, <<>>)
        n == Len(srt)
    IN IF n % 2 = 1 THEN srt[(n + 1) \div 2]
       ELSE FracMul(FracAdd(srt[n \div 2], srt[n \div 2 + 1]), Frac(1, 2))

\* limits of the outlier filter and of the applied growth rate
OutlierSwing == Frac(3, 10)
GrowthCap == Frac(3, 100)

\* recent_growth_rates: the month-over-month growth of the stable period,
\* without the swings of 30% and more
RECURSIVE recent_growth_rates(_, _)
recent_growth_rates(recent_revenues, i) ==
    IF i > Len(recent_revenues) THEN <<>>
    ELSE LET prev == recent_revenues[i - 1]
             growth == Frac(recent_revenues[i] - prev, prev)
         IN (IF prev > 0
                /\ FracLess([n |-> Abs(growth.n), d |-> growth.d], OutlierSwing)
             THEN <<growth>> ELSE <<>>)
            \o recent_growth_rates(recent_revenues, i + 1)

\* capped_growth of create_forecast_sheet
capped_growth_of(growth_rates, last_3_avg, last_6_avg) ==
    IF Len(growth_rates) >= 3
    THEN FracMax(FracMin(median_of_fracs(growth_rates), GrowthCap),
                 FracMul(GrowthCap, FracInt(-1)))
    ELSE IF FracLess(last_6_avg, last_3_avg) THEN Frac(1, 100)
    ELSE IF FracLess(last_3_avg, FracMul(last_6_avg, Frac(95, 100)))
         THEN Frac(-1, 100)
    ELSE FracInt(0)

\* the while loop of _get_next_month
RECURSIVE roll_over(_, _)
roll_over(year, month) ==
    IF month > 12 THEN roll_over(year + 1, month - 12)
    ELSE ToString(year) \o "-" \o (IF month < 10 THEN "0" ELSE "")
                        \o ToString(month)

\* _get_next_month(yearmonth, months_ahead)
get_next_month(yearmonth, months_ahead) ==
    roll_over(YearOf(yearmonth), MonthOf(yearmonth) + months_ahead)

\* as start_month_offset_of, without the look at the current month
offset_after_last_data(last_data_yearmonth, current_yearmonth) == 1

\* start_month_offset of create_forecast_sheet
start_month_offset_of(last_data_yearmonth, current_yearmonth) ==
    IF ~StrLess(last_data_yearmonth, current_yearmonth) THEN 1
    ELSE (YearOf(current_yearmonth) - YearOf(last_data_yearmonth)) * 12
         + (MonthOf(current_yearmonth) - MonthOf(last_data_yearmonth)) + 1

RECURSIVE FracPow(_, _)
FracPow(x, k) == IF k = 0 THEN FracInt(1) ELSE FracMul(x, FracPow(x, k - 1))

\* number of forecast months
ForecastHorizon == 3

\* one row of the forecast: the three scenarios of a month
forecast_row(baseline, capped_growth, forecast_month, months_ahead) ==
    LET trend == FracMul(capped_growth, FracInt(months_ahead))
        positive == ~FracLess(capped_growth, FracInt(0))
        conservative_multiplier ==
            IF positive THEN Frac(95, 100)
            ELSE FracAdd(FracInt(1), FracMul(trend, Frac(12, 10)))
        moderate_multiplier ==
            IF positive THEN FracAdd(FracInt(1), trend) ELSE FracInt(1)
        optimistic_multiplier ==
            IF positive THEN FracAdd(FracInt(1), FracMul(trend, Frac(15, 10)))
            ELSE FracPow(Frac(102, 100), months_ahead)
        moderate_forecast == FracMul(baseline, moderate_multiplier)
        conservative_forecast ==
            FracMin(FracMul(baseline, conservative_multiplier), moderate_forecast)
        optimistic_forecast ==
            FracMax(FracMul(baseline, optimistic_multiplier), moderate_forecast)
    IN [month |-> forecast_month,
        conservative |-> RoundAmount(conservative_forecast),
        moderate |-> RoundAmount(moderate_forecast),
        optimistic |-> RoundAmount(optimistic_forecast),
        growth_rate |-> RoundRate(capped_growth)]

\* as stable_period, but the whole history is the stable period
whole_history(revenues) == revenues

\* recent_data: the last min(9, len) months
stable_period(revenues) ==
    TailOf(revenues, IF Len(revenues) < 9 THEN Len(revenues) ELSE 9)

InsufficientData == [outcome |-> "insufficient"]
ForecastRaises == [outcome |-> "raises"]

\* The forecast and the statistics of create_forecast_sheet from six months
\* or more of monthly data, run in the month current_yearmonth.
forecast_summary(monthly_data, current_yearmonth) ==
         LET revenues == Strict([i \in 1..Len(monthly_data) |->
                                    monthly_data[i].revenue])
             recent_revenues == stable_period(revenues)
             last_3_avg == MeanOf(TailOf(revenues, 3))
             last_6_avg == MeanOf(TailOf(revenues, 6))
             baseline == Frac(twice_median(recent_revenues), 2)
             growth_rates == recent_growth_rates(recent_revenues, 2)
             capped_growth == capped_growth_of(growth_rates, last_3_avg,
                                               last_6_avg)
             last_data_yearmonth == monthly_data[Len(monthly_data)].month
             start_month_offset ==
                 start_month_offset_of(last_data_yearmonth, current_yearmonth)
         IN IF Len(growth_rates) > 0 /\ Len(growth_rates) < 3
            THEN ForecastRaises
            ELSE [outcome |-> "forecast",
                  forecast |->
                      Strict([k \in 1..ForecastHorizon |->
                          forecast_row(baseline, capped_growth,
                              get_next_month(last_data_yearmonth,
                                             start_month_offset + k - 1),
                              k)]),
                  historical_stats |->
                      [all_time_avg |-> RoundAmount(MeanOf(revenues)),
                       last_3_avg |-> RoundAmount(last_3_avg),
                       last_6_avg |-> RoundAmount(last_6_avg),
                       baseline |-> RoundAmount(baseline),
                       median_growth |->
                           IF Len(growth_rates) > 0
                           THEN RoundRate(median_of_fracs(growth_rates))
                           ELSE 0,
                       applied_growth |-> RoundRate(capped_growth)]]

\* as forecast_of, but six months are not enough
forecast_of_more_than_six(monthly_data, current_yearmonth) ==
    IF Len(monthly_data) > MinForecastMonths
    THEN forecast_summary(monthly_data, current_yearmonth)
    ELSE InsufficientData

\* create_forecast_sheet from the monthly data that is left after the partial
\* months are removed: the insufficiency check, then the forecast
forecast_of(monthly_data, current_yearmonth) ==
    IF Len(monthly_data) >= MinForecastMonths
    THEN forecast_summary(monthly_data, current_yearmonth)
    ELSE InsufficientData

\* create_forecast_sheet on the rows of Raw Data
create_forecast_sheet(rows, current_yearmonth) ==
    forecast_of(remove_partial_months(forecast_monthly_data(rows)),
                current_yearmonth)

\* add_summary_sheets fails: revenue_trends takes idxmax() of an empty column
\* when there is no row, or the forecast raises
enhancer_raises(rows, forecast_data) ==
    \/ frame_pairs(rows, FALSE, 1) = <<>>
    \/ forecast_data = ForecastRaises


(***************************************************************************)
(* Inputs.                                                                 *)
(***************************************************************************)
\* What the calendar holds: bookings of a service for a client on a date.
\* The first two are one booking seen with two prices, the third falls in an
\* earlier month and is classified differently by the two scripts, the fourth
\* names no client and is free of charge.
Bookings ==
    { [date |-> "2024-02-10", client |-> "Ana Pop", service |-> "Epilat",
       price |-> 150 * PriceUnit],
      [date |-> "2024-02-10", client |-> "Ana Pop", service |-> "Epilat",
       price |-> 100 * PriceUnit],
      [date |-> "2024-01-05", client |-> "Ana Pop", service |-> "ProBrows",
       price |-> 100 * PriceUnit],
      [date |-> "2024-02-10", client |-> "", service |-> "Epilat",
       price |-> 0] }

DailyCaptured ==
    {daily_appointment(b.date, b.service, b.price, b.client) : b \in Bookings}

HistoricalCaptured ==
    {historical_appointment(b.date, b.service, b.price, b.client) : b \in Bookings}

DailyBatches == UNION {[1..n -> DailyCaptured] : n \in 0..MaxBatch}

HistoricalBatches == UNION {[1..n -> HistoricalCaptured] : n \in 0..MaxBatch}

AmountValues == {125, 15000}

CustomPrices ==
    {[kind |-> k, value |-> 0, scale |-> 0] : k \in {"absent", "other", "null"}}
    \cup {[kind |-> "fixed", value |-> v, scale |-> sc] :
            v \in AmountValues, sc \in 0..MaxScale}

SimplePrices ==
    {[kind |-> "absent", fixed |-> 0], [kind |-> "other", fixed |-> 80],
     [kind |-> "fixed", fixed |-> 80]}

BookedServices ==
    [name : {"Epilat"}, customPrice : CustomPrices, price : SimplePrices]

\* a second service of the same entry
SecondServices ==
    {s \in BookedServices :
        /\ s.customPrice.kind \in {"absent", "null"}
        /\ s.price.kind = "fixed"}

BookedServiceLists ==
    {<<>>} \cup {<<s>> : s \in BookedServices}
           \cup {<<s, t>> : s \in BookedServices, t \in SecondServices}

Entries ==
    [type : {0, 1},
     dateStr : {<<>>, <<"">>, <<"2024-01-05">>, <<"2024-13-45">>},
     client : {<<>>, <<[firstname |-> "Ana", lastname |-> ""]>>},
     bookedServices : BookedServiceLists]

\* the months in which a run can take place (datetime.now())
CurrentMonths == {"2024-10", "2025-01", "2025-11"}

IdleEntry == [type |-> 1, dateStr |-> <<>>, client |-> <<>>,
              bookedServices |-> <<>>]

NotParsed == [script |-> "none", ret |-> "None", appts |-> <<>>]

NoRun == [script |-> "none", outcome |-> "none", existing_keys |-> {},
          new_appointments |-> <<>>, before |-> <<>>, appended |-> <<>>]

(***************************************************************************)
(* Runs.  A script is a process: it starts with the list its route handler *)
(* captured, does its work in one step and exits.                          *)
(***************************************************************************)
NoWorkbook ==
    /\ fileExists = FALSE
    /\ rawData = <<>>
    /\ monthlySummary = <<>>
    /\ categoryTotals = <<>>
    /\ megaCategoryTotals = <<>>
    /\ enhancerSheets = <<>>
    /\ revenueForecast = <<>>

Idle ==
    /\ pc = "idle"
    /\ all_captured_appointments = <<>>
    /\ lastRun = NoRun

NotClassified == [script |-> "none", category |-> ""]

NotForecast == [outcome |-> "none"]

\* nothing is handed to the forecast harness
\* nothing is handed to the function harness
NotApplied == [outcome |-> "none"]

FunctionIdle ==
    /\ harness_input = NotApplied
    /\ harness_output = NotApplied

ForecastIdle ==
    /\ forecast_input = <<>>
    /\ run_month = ""
    /\ forecast_result = NotForecast

\* nothing is handed to the capture and classifier harnesses
HarnessIdle ==
    /\ responses = <<>>
    /\ handled = 0
    /\ classifier_input = ""
    /\ classified = NotClassified
    /\ ForecastIdle
    /\ FunctionIdle

Init ==
    /\ NoWorkbook
    /\ Idle
    /\ entry = IdleEntry
    /\ parsed = NotParsed
    /\ HarnessIdle

\* handle_route of the historical script, over the responses of one run
HistoricalCapture(captured) ==
    /\ pc = "idle"
    /\ pc' = "historical"
    /\ all_captured_appointments' = captured
    /\ UNCHANGED <<workbookVars, lastRun, parserVars, harnessVars>>

\* handle_route of the daily script, over the responses of one run
DailyCapture(captured) ==
    /\ pc = "idle"
    /\ pc' = "daily"
    /\ all_captured_appointments' = captured
    /\ UNCHANGED <<workbookVars, lastRun, parserVars, harnessVars>>

\* run() of historical_revenue_analysis.py after the capture: a new workbook
\* replaces the file, then the enhancer runs on it as a subprocess.
HistoricalExport ==
    /\ pc = "historical"
    /\ \E captured \in {all_captured_appointments} :
       \E srt \in {sorted_by_date(captured)} :
       \E rows \in {Strict([i \in 1..Len(srt) |->
                               AppendedRow(historical_row_values(srt[i]))])} :
       \E saved \in {PersistRows(rows)} :
       \E monthly_data \in
              {remove_partial_months(forecast_monthly_data(saved))} :
          /\ fileExists' = TRUE
          /\ rawData' = saved
          /\ monthlySummary' = <<monthly_summary_sheet(captured)>>
          /\ categoryTotals' = <<category_totals_sheet(captured)>>
          /\ megaCategoryTotals' = <<mega_category_totals_sheet(captured)>>
          /\ \E current_yearmonth \in CurrentMonths :
             \E forecast_data \in
                    {forecast_of(monthly_data, current_yearmonth)} :
             \E enhanced \in {~enhancer_raises(saved, forecast_data)} :
                /\ enhancerSheets' =
                      IF enhanced
                      THEN <<summary_sheets(saved)>>
                      ELSE <<>>
                /\ revenueForecast' =
                      IF enhanced /\ forecast_data.outcome = "forecast"
                      THEN <<forecast_data>> ELSE <<>>
          /\ lastRun' = [script |-> "historical", outcome |-> "completed",
                         existing_keys |-> {}, new_appointments |-> <<>>,
                         before |-> <<>>, appended |-> rows]
    /\ pc' = "done"
    /\ UNCHANGED <<all_captured_appointments, parserVars, harnessVars>>

\* the rows update_excel_file appends to the loaded Raw Data sheet
appended_rows(new_appointments) ==
    LET srt == sorted_by_date(new_appointments)
    IN Strict([i \in 1..Len(srt) |-> AppendedRow(daily_row_values(srt[i]))])

\* Faulty variant of raw_data_after_append: every new row is put where its
\* date belongs among the rows of the sheet.
RECURSIVE insert_row_by_date(_, _)
insert_row_by_date(row, rows) ==
    IF rows = <<>> THEN <<row>>
    ELSE IF StrLess(Format(row[1]), Format(Head(rows)[1]))
         THEN <<row>> \o rows
         ELSE <<Head(rows)>> \o insert_row_by_date(row, Tail(rows))

RECURSIVE insert_rows_by_date(_, _, _)
insert_rows_by_date(new_rows, i, rows) ==
    IF i > Len(new_rows) THEN rows
    ELSE insert_rows_by_date(new_rows, i + 1,
                             insert_row_by_date(new_rows[i], rows))

raw_data_resorted(rows, new_appointments) ==
    insert_rows_by_date(appended_rows(new_appointments), 1, rows)

\* the Raw Data rows in memory once update_excel_file has appended
raw_data_after_append(rows, new_appointments) ==
    rows \o appended_rows(new_appointments)

\* how run() of the daily script ends for a workbook and a captured list
daily_outcome(exists, rows, captured) ==
    LET new_appointments ==
            filter_new(captured, load_existing_appointments(exists, rows), 1)
    IN IF ~exists THEN "no_file"
       ELSE IF new_appointments = <<>> THEN "no_new"
       ELSE IF rebuild_raises(raw_data_after_append(rows, new_appointments))
            THEN "crashed"
            ELSE "completed"

\* run() of daily_revenue_analysis.py after the capture, update_excel_file
\* and rebuild_summary_sheets included.
DailyUpdate ==
    /\ pc = "daily"
    /\ LET captured == all_captured_appointments
           existing_keys == load_existing_appointments(fileExists, rawData)
           new_appointments == filter_new(captured, existing_keys, 1)
           appended == appended_rows(new_appointments)
           in_memory == raw_data_after_append(rawData, new_appointments)
           all_appts == rebuild_all_appts(in_memory, 1)
           outcome == daily_outcome(fileExists, rawData, captured)
       IN /\ IF outcome = "completed"
             THEN /\ rawData' = PersistRows(in_memory)
                  /\ monthlySummary' = <<monthly_summary_sheet(all_appts)>>
                  /\ categoryTotals' = <<category_totals_sheet(all_appts)>>
                  /\ UNCHANGED <<fileExists, megaCategoryTotals,
                                 enhancerSheets, revenueForecast>>
             ELSE UNCHANGED workbookVars
          /\ lastRun' = [script |-> "daily", outcome |-> outcome,
                         existing_keys |->
                             IF fileExists THEN existing_keys ELSE {},
                         new_appointments |->
                             IF fileExists THEN new_appointments ELSE <<>>,
                         before |-> rawData,
                         appended |-> IF outcome = "completed" THEN appended
                                      ELSE <<>>]
    /\ pc' = "done"
    /\ UNCHANGED <<all_captured_appointments, parserVars, harnessVars>>

\* main() of excel_summary_enhancer.py: load_data, add_summary_sheets,
\* save_workbook.
\* as save_workbook_reached, but the answer of add_summary_sheets is ignored
save_workbook_regardless(outcome) == outcome # "no_file"

\* run() of the enhancer reaches save_workbook only if load_data and
\* add_summary_sheets have answered True
save_workbook_reached(outcome) == outcome = "completed"

EnhancerRun ==
    /\ pc = "idle"
    /\ \E monthly_data \in
           {remove_partial_months(forecast_monthly_data(rawData))} :
       \E current_yearmonth \in CurrentMonths :
       \E forecast_data \in {forecast_of(monthly_data, current_yearmonth)} :
       \E outcome \in {IF ~fileExists THEN "no_file"
                       ELSE IF enhancer_raises(rawData, forecast_data)
                            THEN "failed"
                       ELSE "completed"} :
          /\ IF save_workbook_reached(outcome)
             THEN /\ enhancerSheets' =
                        <<summary_sheets(rawData)>>
                  /\ revenueForecast' =
                        IF forecast_data.outcome = "forecast"
                        THEN <<forecast_data>>
                        ELSE revenueForecast
                  /\ UNCHANGED <<fileExists, rawData, monthlySummary,
                                 categoryTotals, megaCategoryTotals>>
             ELSE UNCHANGED workbookVars
          /\ lastRun' = [script |-> "enhancer", outcome |-> outcome,
                         existing_keys |-> {}, new_appointments |-> <<>>,
                         before |-> rawData, appended |-> <<>>]
    /\ pc' = "done"
    /\ UNCHANGED <<all_captured_appointments, parserVars, harnessVars>>

\* the process ends; its captured list and its locals are gone
ProcessExit ==
    /\ pc = "done"
    /\ pc' = "idle"
    /\ all_captured_appointments' = <<>>
    /\ lastRun' = NoRun
    /\ UNCHANGED <<workbookVars, parserVars, harnessVars>>

\* the store of the model holds at most MaxRows rows written by daily updates
StoreStaysBounded(captured) ==
    daily_outcome(fileExists, rawData, captured) = "completed"
        => Len(rawData)
           + Len(filter_new(captured,
                            load_existing_appointments(fileExists, rawData), 1))
           <= MaxRows

HistoricalCaptureStep ==
    /\ pc = "idle"
    /\ \E captured \in HistoricalBatches : HistoricalCapture(captured)

DailyCaptureStep ==
    /\ pc = "idle"
    /\ \E captured \in DailyBatches :
          /\ StoreStaysBounded(captured)
          /\ DailyCapture(captured)

Next ==
    \/ HistoricalCaptureStep
    \/ DailyCaptureStep
    \/ HistoricalExport
    \/ DailyUpdate
    \/ EnhancerRun
    \/ ProcessExit

Spec == Init /\ [][Next]_vars

(***************************************************************************)
(* The parser on its own: one raw entry, parsed by either script.          *)
(***************************************************************************)
InitParse ==
    /\ NoWorkbook
    /\ Idle
    /\ entry \in Entries
    /\ parsed = NotParsed
    /\ HarnessIdle

ParseDaily ==
    /\ parsed.script = "none"
    /\ parsed' = [script |-> "daily"] @@ daily_parse_appointment(entry)
    /\ UNCHANGED <<workbookVars, runVars, entry, harnessVars>>

ParseHistorical ==
    /\ parsed.script = "none"
    /\ parsed' = [script |-> "historical"] @@ historical_parse_appointment(entry)
    /\ UNCHANGED <<workbookVars, runVars, entry, harnessVars>>

NextParse == ParseDaily \/ ParseHistorical

SpecParse == InitParse /\ [][NextParse]_vars

(***************************************************************************)
(* The route handler on its own: the responses of one run, handled one by  *)
(* one by the script whose run it is.                                      *)
(***************************************************************************)
\* the entries a response can hold: an appointment of one service, an
\* appointment of two services, an appointment whose second service makes
\* the parser raise, and an entry that is no appointment
CaptureEntries ==
    LET plain == [name |-> "Epilat",
                  customPrice |-> [kind |-> "absent", value |-> 0, scale |-> 0],
                  price |-> [kind |-> "fixed", fixed |-> 80]]
        custom == [name |-> "Epilat",
                   customPrice |-> [kind |-> "fixed", value |-> 15000, scale |-> 2],
                   price |-> [kind |-> "absent", fixed |-> 0]]
        broken == [name |-> "Epilat",
                   customPrice |-> [kind |-> "null", value |-> 0, scale |-> 0],
                   price |-> [kind |-> "fixed", fixed |-> 80]]
        ana == <<[firstname |-> "Ana", lastname |-> ""]>>
    IN { [type |-> 0, dateStr |-> <<"2024-01-05">>, client |-> ana,
          bookedServices |-> <<plain>>],
         [type |-> 0, dateStr |-> <<"2024-01-05">>, client |-> <<>>,
          bookedServices |-> <<custom, plain>>],
         [type |-> 0, dateStr |-> <<"2024-01-05">>, client |-> ana,
          bookedServices |-> <<plain, broken>>],
         [type |-> 1, dateStr |-> <<"2024-01-05">>, client |-> <<>>,
          bookedServices |-> <<>>] }

\* the entries of one response
Responses == UNION {[1..n -> CaptureEntries] : n \in 0..MaxEntries}

\* the responses of one run: one, or one and a later one
ResponseLists == {<<r>> : r \in Responses} \cup (Responses \X Responses)

parse_appointment(script, e) ==
    IF script = "daily" THEN daily_parse_appointment(e)
    ELSE historical_parse_appointment(e)

\* Faulty variant of capture_entries: the first entry whose parsing raises
\* ends the handling of the response.
RECURSIVE capture_entries_fail_fast(_, _, _, _)
capture_entries_fail_fast(script, captured, entries, i) ==
    IF i > Len(entries) THEN captured
    ELSE IF entries[i].type = 0 /\ Raises(entries[i]) THEN captured
    ELSE LET parsed_appts == parse_appointment(script, entries[i])
         IN capture_entries_fail_fast(
                script,
                IF parsed_appts.ret = "list" /\ parsed_appts.appts # <<>>
                THEN captured \o parsed_appts.appts
                ELSE captured,
                entries, i + 1)

\* the loop of handle_route over the entries of a response
RECURSIVE capture_entries(_, _, _, _)
capture_entries(script, captured, entries, i) ==
    IF i > Len(entries) THEN captured
    ELSE LET parsed_appts == parse_appointment(script, entries[i])
         IN capture_entries(
                script,
                IF parsed_appts.ret = "list" /\ parsed_appts.appts # <<>>
                THEN captured \o parsed_appts.appts
                ELSE captured,
                entries, i + 1)

InitCapture ==
    /\ NoWorkbook
    /\ pc \in {"daily", "historical"}
    /\ all_captured_appointments = <<>>
    /\ lastRun = NoRun
    /\ entry = IdleEntry
    /\ parsed = NotParsed
    /\ responses \in ResponseLists
    /\ handled = 0
    /\ classifier_input = ""
    /\ classified = NotClassified
    /\ ForecastIdle
    /\ FunctionIdle

\* handle_route of the daily script for the next response
DailyHandleRoute ==
    /\ pc = "daily"
    /\ handled < Len(responses)
    /\ all_captured_appointments' =
          capture_entries("daily", all_captured_appointments,
                          responses[handled + 1], 1)
    /\ handled' = handled + 1
    /\ UNCHANGED <<workbookVars, pc, lastRun, parserVars, responses,
                   classifierVars, forecastVars, functionVars>>

\* handle_route of the historical script for the next response
HistoricalHandleRoute ==
    /\ pc = "historical"
    /\ handled < Len(responses)
    /\ all_captured_appointments' =
          capture_entries("historical", all_captured_appointments,
                          responses[handled + 1], 1)
    /\ handled' = handled + 1
    /\ UNCHANGED <<workbookVars, pc, lastRun, parserVars, responses,
                   classifierVars, forecastVars, functionVars>>

NextCapture == DailyHandleRoute \/ HistoricalHandleRoute

SpecCapture == InitCapture /\ [][NextCapture]_vars

(***************************************************************************)
(* The classifier on its own: one service name, classified by either       *)
(* script.                                                                 *)
(***************************************************************************)
NameParts ==
    {"", "Pensat", "PROBROWS", "epilat", "Oxigenare", "Oxygen", "Laminare",
     "Microneedling", "DermaPen", "Pure Solution", "Peeling", "Tratament",
     "Manichiura"}

\* service names: two parts, each a word of a rule or none
ServiceNames == {a \o " " \o b : a \in NameParts, b \in NameParts}

InitClassify ==
    /\ NoWorkbook
    /\ Idle
    /\ entry = IdleEntry
    /\ parsed = NotParsed
    /\ responses = <<>>
    /\ handled = 0
    /\ classifier_input \in ServiceNames
    /\ classified = NotClassified
    /\ ForecastIdle
    /\ FunctionIdle

ClassifyDaily ==
    /\ classified.script = "none"
    /\ classified' = [script |-> "daily",
                      category |-> daily_extract_category(classifier_input)]
    /\ UNCHANGED <<workbookVars, runVars, parserVars, captureVars,
                   classifier_input, forecastVars, functionVars>>

ClassifyHistorical ==
    /\ classified.script = "none"
    /\ classified' = [script |-> "historical",
                      category |-> historical_extract_category(classifier_input)]
    /\ UNCHANGED <<workbookVars, runVars, parserVars, captureVars,
                   classifier_input, forecastVars, functionVars>>

NextClassify == ClassifyDaily \/ ClassifyHistorical

SpecClassify == InitClassify /\ [][NextClassify]_vars

(***************************************************************************)
(* The forecast on its own: the monthly data of a store, forecast in some  *)
(* month.                                                                  *)
(***************************************************************************)
\* consecutive months of data, across a turn of the year
MonthLabels ==
    <<"2024-08", "2024-09", "2024-10", "2024-11", "2024-12", "2025-01",
      "2025-02", "2025-03", "2025-04", "2025-05", "2025-06", "2025-07">>

\* monthly revenues, in 1/PriceUnit RON; no price is checked for its sign, so
\* a month of refunds has a negative revenue; from 100 to 130 is a swing of
\* exactly 30%
RevenueValues == {-100, 100, 102, 130}

\* the bookings of the months: 4 in every month; or 2 in the first month,
\* exactly half the median; or 1 in the last month, a partial month
PartialMonths == {"none", "half_first", "last"}

MonthlyInput(revenues, partial) ==
    [i \in 1..Len(revenues) |->
        [month |-> MonthLabels[i],
         revenue |-> revenues[i],
         bookings |-> IF partial = "half_first" /\ i = 1 THEN 2
                      ELSE IF partial = "last" /\ i = Len(revenues) THEN 1
                      ELSE 4]]

\* monthly revenues of the histories with a partial month and of the long
\* histories
SteadyRevenueValues == {100, 130}

MonthlyInputs ==
    {MonthlyInput(revenues, "none") :
        revenues \in UNION {[1..n -> RevenueValues] : n \in 1..MaxMonths}}
    \cup
    {MonthlyInput(revenues, partial) :
        revenues \in UNION {[1..n -> SteadyRevenueValues] : n \in 1..MaxMonths},
        partial \in PartialMonths}

\* histories of full months that are longer than the stable period
LongHistories ==
    {MonthlyInput(revenues, "none") :
        revenues \in UNION {[1..n -> SteadyRevenueValues] :
                              n \in 10..MaxHistory}}

InitForecast ==
    /\ NoWorkbook
    /\ Idle
    /\ entry = IdleEntry
    /\ parsed = NotParsed
    /\ responses = <<>>
    /\ handled = 0
    /\ classifier_input = ""
    /\ classified = NotClassified
    /\ forecast_input \in MonthlyInputs \cup LongHistories
    /\ run_month = ""
    /\ forecast_result = NotForecast
    /\ FunctionIdle

\* create_forecast_sheet on the monthly data, run in some month
RunForecast ==
    /\ forecast_result = NotForecast
    /\ \E monthly_data \in {remove_partial_months(forecast_input)} :
       \E current_yearmonth \in CurrentMonths :
          /\ run_month' = current_yearmonth
          /\ forecast_result' = forecast_of(monthly_data, current_yearmonth)
    /\ UNCHANGED <<workbookVars, runVars, parserVars, captureVars,
                   classifierVars, forecast_input, functionVars>>

NextForecast == RunForecast

SpecForecast == InitForecast /\ [][NextForecast]_vars

(***************************************************************************)
(* The start of a daily run on its own: the workbook it finds, whose Raw    *)
(* Data sheet may be missing, and the list it captured.                    *)
(***************************************************************************)
\* the workbooks a daily run can find: none, one without a Raw Data sheet,
\* one with a Raw Data sheet of no row or of one row of the historical export
FoundWorkbooks ==
    {[exists |-> FALSE, readable |-> FALSE, rows |-> <<>>],
     [exists |-> TRUE, readable |-> FALSE, rows |-> <<>>],
     [exists |-> TRUE, readable |-> TRUE, rows |-> <<>>]}
    \cup {[exists |-> TRUE, readable |-> TRUE,
           rows |-> PersistRows(<<AppendedRow(historical_row_values(a))>>)] :
             a \in HistoricalCaptured}

\* load_existing_appointments on a workbook: wb["Raw Data"] raises when the
\* sheet is missing, and the except branch answers with the empty set
load_existing_or_empty(workbook) ==
    IF workbook.exists /\ ~workbook.readable
    THEN [answer |-> "keys", keys |-> {}]
    ELSE [answer |-> "keys",
          keys |-> load_existing_appointments(workbook.exists, workbook.rows)]

\* run() of the daily script up to the end of update_excel_file
daily_run_on(workbook, captured) ==
    LET existing == load_existing_or_empty(workbook)
        new_appointments == filter_new(captured, existing.keys, 1)
    IN IF ~workbook.exists
       THEN [outcome |-> "no_file", existing |-> existing,
             new_appointments |-> <<>>]
       ELSE [outcome |-> IF new_appointments = <<>> THEN "no_new"
                         ELSE IF ~workbook.readable THEN "crashed"
                         ELSE daily_outcome(TRUE, workbook.rows, captured),
             existing |-> existing,
             new_appointments |-> new_appointments]

InitLoad ==
    /\ NoWorkbook
    /\ Idle
    /\ entry = IdleEntry
    /\ parsed = NotParsed
    /\ responses = <<>>
    /\ handled = 0
    /\ classifier_input = ""
    /\ classified = NotClassified
    /\ ForecastIdle
    /\ harness_input \in [workbook : FoundWorkbooks, captured : DailyBatches]
    /\ harness_output = NotApplied

DailyLoadRun ==
    /\ harness_output = NotApplied
    /\ harness_output' = daily_run_on(harness_input.workbook,
                                      harness_input.captured)
    /\ UNCHANGED <<workbookVars, runVars, parserVars, captureVars,
                   classifierVars, forecastVars, harness_input>>

NextLoad == DailyLoadRun

SpecLoad == InitLoad /\ [][NextLoad]_vars

(***************************************************************************)
(* The client analysis on stores of a few clients.                         *)
(***************************************************************************)
ClientNames == <<"Ana", "Bea", "Cora", "Dana", "Eva">>

\* what a client has spent in one visit, in 1/PriceUnit RON
SpendValues == {0, 50, 100, 150}

\* a row the store can hold besides one visit of each client: a second visit
\* of the first client, or a booking without a client
ExtraRows ==
    {<<>>,
     <<AppendedRow(<<StrCell("2025-01-16"), StrCell("Ana"), StrCell("Pensat"),
                     StrCell("Pensat"), StrCell("Sprancene"), NumCell(50)>>)>>,
     <<AppendedRow(<<StrCell("2025-01-16"), NoneCell, StrCell("Pensat"),
                     StrCell("Pensat"), StrCell("Sprancene"), NumCell(150)>>)>>}

ClientStores ==
    {Strict([i \in 1..Len(spent) |->
                AppendedRow(<<StrCell("2025-01-15"), StrCell(ClientNames[i]),
                              StrCell("Pensat"), StrCell("Pensat"),
                              StrCell("Sprancene"), NumCell(spent[i])>>)])
         \o extra :
       spent \in UNION {[1..n -> SpendValues] : n \in 1..MaxClients},
       extra \in ExtraRows}

\* dates of appointments around the turns of three years, in ascending
\* order
WeekDates ==
    <<"2021-01-01", "2021-01-04", "2024-01-01", "2024-01-07", "2024-01-08",
      "2024-12-29", "2024-12-30", "2025-01-01">>

\* stores with one appointment on each of some of the dates
WeekStores ==
    {LET OnADay(row) == row[1].s \in days
     IN SelectSeq(Strict([i \in 1..Len(WeekDates) |->
                AppendedRow(<<StrCell(WeekDates[i]), StrCell("Ana"),
                              StrCell("Pensat"), StrCell("Pensat"),
                              StrCell("Sprancene"), NumCell(100)>>)]),
                  OnADay) :
        days \in SUBSET {WeekDates[i] : i \in 1..Len(WeekDates)} \ {{}}}

InitWeek ==
    /\ NoWorkbook
    /\ Idle
    /\ entry = IdleEntry
    /\ parsed = NotParsed
    /\ responses = <<>>
    /\ handled = 0
    /\ classifier_input = ""
    /\ classified = NotClassified
    /\ ForecastIdle
    /\ harness_input \in WeekStores
    /\ harness_output = NotApplied

WeeklySummaryRun ==
    /\ harness_output = NotApplied
    /\ harness_output' = [outcome |-> "weekly_summary",
                          weeks |-> create_weekly_summary(harness_input)]
    /\ UNCHANGED <<workbookVars, runVars, parserVars, captureVars,
                   classifierVars, forecastVars, harness_input>>

NextWeek == WeeklySummaryRun

SpecWeek == InitWeek /\ [][NextWeek]_vars

InitTier ==
    /\ NoWorkbook
    /\ Idle
    /\ entry = IdleEntry
    /\ parsed = NotParsed
    /\ responses = <<>>
    /\ handled = 0
    /\ classifier_input = ""
    /\ classified = NotClassified
    /\ ForecastIdle
    /\ harness_input \in ClientStores
    /\ harness_output = NotApplied

ClientAnalysisRun ==
    /\ harness_output = NotApplied
    /\ harness_output' = [outcome |-> "client_analysis",
                          clients |-> create_client_analysis(harness_input)]
    /\ UNCHANGED <<workbookVars, runVars, parserVars, captureVars,
                   classifierVars, forecastVars, harness_input>>

NextTier == ClientAnalysisRun

SpecTier == InitTier /\ [][NextTier]_vars

(***************************************************************************)
(* Properties of the runs.                                                 *)
(***************************************************************************)
\* a daily update has just appended to the store and saved it
DailyCompleted ==
    /\ pc = "done"
    /\ lastRun.script = "daily"
    /\ lastRun.outcome = "completed"

\* the identity of a stored row: its date, client and service cells
StoredKey(row) == <<row[1], row[2], row[3]>>

\* C1: no two rows of the persisted Raw Data store share the identity key
\* (date, client, service), whatever was captured by the export and by the
\* daily updates that followed it.
C1_NoTwoRowsShareKey ==
    \A i, j \in 1..Len(rawData) :
        i # j => StoredKey(rawData[i]) # StoredKey(rawData[j])

\* C2: once a daily update has merged its captured batch into the store, a
\* daily update that loads the keys of that store and captures the same batch
\* finds no new appointment.
C2_RerunFindsNothingNew ==
    DailyCompleted =>
        filter_new(all_captured_appointments,
                   load_existing_appointments(fileExists, rawData), 1) = <<>>

\* the identity key of an appointment: "date|client|service"
IdentityKey(a) == a.date \o "|" \o a.client \o "|" \o a.service

\* a daily run that got as far as filtering its captured list
DailyFiltered ==
    /\ pc = "done"
    /\ lastRun.script = "daily"
    /\ lastRun.outcome # "no_file"

\* C3: the new-appointment list of a daily update is the captured
\* appointments whose key "date|client|service" is not among the existing
\* keys, in capture order; two captured appointments that differ in price
\* only are both kept or both left out.
C3_NewAreCapturedWithAbsentKey ==
    DailyFiltered =>
        /\ lastRun.new_appointments =
              SelectSeq(all_captured_appointments,
                        LAMBDA a : IdentityKey(a) \notin lastRun.existing_keys)
        /\ \A i, j \in 1..Len(all_captured_appointments) :
              LET a == all_captured_appointments[i]
                  b == all_captured_appointments[j]
                  Kept(x) == \E k \in 1..Len(lastRun.new_appointments) :
                                 lastRun.new_appointments[k] = x
              IN IdentityKey(a) = IdentityKey(b) => (Kept(a) <=> Kept(b))

\* A captured appointment is left out although the row stored under its key
\* carries another price, while another captured appointment is kept.
C3_Witness ==
    /\ DailyFiltered
    /\ lastRun.new_appointments # <<>>
    /\ \E i \in 1..Len(all_captured_appointments) :
          \E r \in 1..Len(lastRun.before) :
              /\ row_key(lastRun.before[r])
                    = IdentityKey(all_captured_appointments[i])
              /\ lastRun.before[r][5] # NumCell(all_captured_appointments[i].price)
              /\ \A k \in 1..Len(lastRun.new_appointments) :
                    lastRun.new_appointments[k] # all_captured_appointments[i]

\* C4: every row of the persisted Raw Data store follows the header: its
\* fifth cell is a mega-category and its sixth cell is the price.
C4_RowsFollowHeader ==
    \A i \in 1..Len(rawData) :
        /\ rawData[i][5].t = "str"
        /\ rawData[i][5].s \in MegaCategoryNames
        /\ rawData[i][6].t = "num"

\* the price a stored row carries: the number among its cells
StoredPrice(row) ==
    IF row[5].t = "num" THEN row[5].n
    ELSE IF row[6].t = "num" THEN row[6].n
    ELSE 0

RECURSIVE SumStoredPrices(_)
SumStoredPrices(rows) ==
    IF rows = <<>> THEN 0
    ELSE StoredPrice(Head(rows)) + SumStoredPrices(Tail(rows))

\* every row of the store as an appointment to aggregate
StoredAppointments(rows) ==
    [i \in 1..Len(rows) |->
        [date |-> rows[i][1].s, category |-> rows[i][4].s,
         price |-> StoredPrice(rows[i])]]

RowSet(rows) == {rows[i] : i \in 1..Len(rows)}

\* a totals sheet holds the groups and the grand total of another
SameTotals(sheet, other) ==
    /\ RowSet(sheet.rows) = RowSet(other.rows)
    /\ sheet.grand_total_count = other.grand_total_count
    /\ sheet.grand_total_revenue = other.grand_total_revenue

\* a monthly sheet holds the months, groups and month totals of another
SameMonths(sheet, other) ==
    /\ Len(sheet) = Len(other)
    /\ \A m \in 1..Len(sheet) :
          /\ sheet[m].month = other[m].month
          /\ RowSet(sheet[m].rows) = RowSet(other[m].rows)
          /\ sheet[m].month_total = other[m].month_total
          /\ sheet[m].month_total_count = other[m].month_total_count

\* C6: after a completed run every derived sheet of the workbook is computed
\* from the rows the store holds now: none is left over from earlier rows.
C6_DerivedSheetsAreCurrent ==
    (pc = "done" /\ lastRun.outcome = "completed") =>
        /\ monthlySummary # <<>> =>
              SameMonths(monthlySummary[1],
                         monthly_summary_sheet(StoredAppointments(rawData)))
        /\ categoryTotals # <<>> =>
              SameTotals(categoryTotals[1],
                         category_totals_sheet(StoredAppointments(rawData)))
        /\ megaCategoryTotals # <<>> =>
              megaCategoryTotals[1].grand_total_count = Len(rawData)
        /\ enhancerSheets # <<>> =>
              enhancerSheets[1].daily_summary = create_daily_summary(rawData)
        /\ revenueForecast # <<>> =>
              \E current_yearmonth \in CurrentMonths :
                  revenueForecast
                      = <<create_forecast_sheet(rawData, current_yearmonth)>>

\* C7: a daily update leaves the rows the store held, unchanged and in their
\* order, at the front of the rows it holds afterwards.
C7_OldRowsStayAsPrefix ==
    [][pc = "daily" =>
          /\ Len(rawData) <= Len(rawData')
          /\ SubSeq(rawData', 1, Len(rawData)) = rawData]_vars

\* A daily update appended behind the rows of an earlier update.
C7_Witness ==
    /\ DailyCompleted
    /\ lastRun.before # <<>>
    /\ Len(rawData) > Len(lastRun.before)
    /\ SubSeq(rawData, 1, Len(lastRun.before)) = lastRun.before

\* a script has just written rows to the store
RowsWritten ==
    /\ pc = "done"
    /\ lastRun.script \in {"daily", "historical"}
    /\ lastRun.outcome = "completed"

\* the appointments the finished run had to write, in capture order
ToWrite ==
    IF lastRun.script = "daily" THEN lastRun.new_appointments
    ELSE all_captured_appointments

\* the rows the finished run added to the store
Written == SubSeq(rawData, Len(lastRun.before) + 1, Len(rawData))

\* the stored row of an appointment
StoredRowOf(a) ==
    IF lastRun.script = "daily"
    THEN PersistRow(AppendedRow(daily_row_values(a)))
    ELSE PersistRow(AppendedRow(historical_row_values(a)))

\* C8: the rows a run writes are in non-decreasing date order, and the rows
\* of one date are in the order in which their appointments were captured.
C8_WrittenByDateStable ==
    RowsWritten =>
        /\ Len(Written) = Len(ToWrite)
        /\ \A i, j \in 1..Len(Written) :
              i < j => ~StrLess(Written[j][1].s, Written[i][1].s)
        /\ \A d \in {ToWrite[i].date : i \in 1..Len(ToWrite)} :
              LET of_date == SelectSeq(ToWrite, LAMBDA a : a.date = d)
              IN SelectSeq(Written, LAMBDA r : r[1].s = d)
                    = [i \in 1..Len(of_date) |-> StoredRowOf(of_date[i])]

\* A daily update wrote two different rows of one date.
C8_Witness ==
    /\ RowsWritten
    /\ lastRun.script = "daily"
    /\ \E i, j \in 1..Len(Written) :
          /\ i < j
          /\ Written[i][1] = Written[j][1]
          /\ Written[i] # Written[j]

\* the price the precedence rule gives a booked service
PrecedencePrice(service) ==
    IF service.customPrice.kind = "fixed"
    THEN (service.customPrice.value * PriceUnit)
            \div Pow(10, service.customPrice.scale)
    ELSE IF service.price.kind = "fixed"
         THEN service.price.fixed * PriceUnit
         ELSE 0

\* C9: the price of every parsed appointment follows the precedence: a
\* custom price of fixed type, else a price of fixed type (also when the
\* service carries a custom price of another type), else 0.
C9_PriceFollowsPrecedence ==
    parsed.ret = "list" =>
        \A i \in 1..Len(parsed.appts) :
            parsed.appts[i].price = PrecedencePrice(entry.bookedServices[i])

\* C10: for a fixed custom price {value, scale} the appointment price is
\* value / 10^scale when scale > 0 and value when scale is 0; value 15000
\* with scale 2 gives 150.
C10_CustomAmountScaled ==
    parsed.ret = "list" =>
        \A i \in 1..Len(parsed.appts) :
            LET custom == entry.bookedServices[i].customPrice
                price == parsed.appts[i].price
            IN custom.kind = "fixed" =>
                  /\ custom.scale > 0 =>
                        price * Pow(10, custom.scale) = custom.value * PriceUnit
                  /\ custom.scale = 0 => price = custom.value * PriceUnit
                  /\ (custom.value = 15000 /\ custom.scale = 2) =>
                        price = 150 * PriceUnit

\* An entry with the custom amount {15000, 2} was parsed to the price 150.
C10_Witness ==
    /\ parsed.ret = "list"
    /\ \E i \in 1..Len(parsed.appts) :
          /\ entry.bookedServices[i].customPrice
                = [kind |-> "fixed", value |-> 15000, scale |-> 2]
          /\ parsed.appts[i].price = 150 * PriceUnit

\* C11: the parser yields no appointment for an entry that is not of
\* appointment type or whose date string is missing or is no calendar date;
\* every appointment it yields carries a date the aggregation can resolve.
C11_OnlyResolvableDatesParsed ==
    (parsed.ret = "list" /\ parsed.appts # <<>>) =>
        /\ entry.type = 0
        /\ entry.dateStr # <<>>
        /\ strptime_ok(entry.dateStr[1])
        /\ \A i \in 1..Len(parsed.appts) : strptime_ok(parsed.appts[i].date)

\* parsing the entry raises an exception
ParsingRaises(e) ==
    /\ e.type = 0
    /\ e.dateStr # <<>> /\ e.dateStr # <<"">>
    /\ \E k \in 1..Len(e.bookedServices) :
          e.bookedServices[k].customPrice.kind = "null"

\* what an entry adds to the captured list
Contribution(e) ==
    IF ParsingRaises(e) THEN <<>>
    ELSE parse_appointment(pc, e).appts

RECURSIVE ContributionsOfEntries(_)
ContributionsOfEntries(entries) ==
    IF entries = <<>> THEN <<>>
    ELSE Contribution(Head(entries)) \o ContributionsOfEntries(Tail(entries))

RECURSIVE ContributionsOfResponses(_)
ContributionsOfResponses(rs) ==
    IF rs = <<>> THEN <<>>
    ELSE ContributionsOfEntries(Head(rs)) \o ContributionsOfResponses(Tail(rs))

\* C12: an entry whose parsing raises adds nothing to the captured list;
\* the list holds, in order, the appointments of every other entry of the
\* responses handled so far, before and after the entry that raised.
C12_BadEntryIsSkippedAlone ==
    all_captured_appointments
        = ContributionsOfResponses(SubSeq(responses, 1, handled))

\* A later response held an entry that raised, followed by an entry that was
\* captured behind the appointments of the first response.
C12_Witness ==
    /\ handled = 2
    /\ Len(responses[1]) = 1
    /\ Contribution(responses[1][1]) # <<>>
    /\ Len(responses[2]) = 2
    /\ ParsingRaises(responses[2][1])
    /\ Contribution(responses[2][2]) # <<>>
    /\ all_captured_appointments
          = Contribution(responses[1][1]) \o Contribution(responses[2][2])

\* the rules of the script that classified
RulesOf(script) ==
    IF script = "daily" THEN daily_categories ELSE historical_categories

\* a literal of the rule occurs in the name, whatever the case of letters
RuleMatches(rule, name) ==
    \E lit \in rule.pattern :
        \E k \in 1..(Len(name) - Len(lit) + 1) :
            Lower(SubSeq(name, k, k + Len(lit) - 1)) = lit

\* C13: extract_category answers for every service name: the category of
\* the first rule of its list that matches the name without regard to case,
\* and Other when no rule matches.
C13_FirstMatchingRuleWins ==
    classified.script # "none" =>
        LET rules == RulesOf(classified.script)
            matching == {k \in 1..Len(rules) :
                            RuleMatches(rules[k], classifier_input)}
        IN IF matching = {} THEN classified.category = "Other"
           ELSE \E k \in matching :
                   /\ \A j \in matching : k <= j
                   /\ classified.category = rules[k].category

\* A name that two rules match was given the category of the earlier rule,
\* although the word of the later rule comes first in the name.
C13_Witness ==
    /\ classified.script = "daily"
    /\ classifier_input = "epilat Pensat"
    /\ classified.category = "Pensat"

\* the static table of mega-categories
MegaTable(category) ==
    CASE category \in {"Pensat", "ProBrows", "Laminare"} -> "Sprancene"
      [] category = "Epilat" -> "Epilare"
      [] category \in {"Oxygenera", "Microneedling", "DermaPen", "Peeling",
                       "Tratament", "Pure Solution"} -> "Tratamente"
      [] OTHER -> "Altele"

\* C14: every appointment written to the store carries the mega-category
\* the static table gives its category, Altele when the table does not hold
\* the category.
C14_StoredMegaCategoryFromTable ==
    \A i \in 1..Len(rawData) :
        rawData[i][5] = StrCell(MegaTable(rawData[i][4].s))

\* the forecast harness has run
ForecastDone == forecast_result /= NotForecast

\* the monthly data that is left after the partial months are removed
RemainingMonths == remove_partial_months(forecast_input)

\* C15: whenever six months or more remain after the partial months are
\* removed, the forecast does not fail and returns exactly three forecast
\* rows and the historical statistics, also when fewer than three growth
\* ratios survive the outlier filter.
C15_ForecastWheneverSixMonths ==
    (ForecastDone /\ Len(RemainingMonths) >= MinForecastMonths)
        => /\ forecast_result.outcome = "forecast"
           /\ Len(forecast_result.forecast) = 3
           /\ DOMAIN forecast_result.historical_stats
                  = {"all_time_avg", "last_3_avg", "last_6_avg", "baseline",
                     "median_growth", "applied_growth"}

\* C16: the forecast reports the insufficient-data outcome, which is neither
\* a forecast nor an error, exactly when fewer than six months remain after
\* the partial months are removed.
C16_InsufficientExactlyBelowSix ==
    ForecastDone
        => /\ (forecast_result = InsufficientData
                  <=> Len(RemainingMonths) < 6)
           /\ (forecast_result = InsufficientData
                  => /\ forecast_result.outcome \notin {"forecast", "raises"}
                     /\ "forecast" \notin DOMAIN forecast_result)

\* six months of data of which the filter leaves five
C16_Witness ==
    /\ ForecastDone
    /\ Len(forecast_input) = 6
    /\ Len(RemainingMonths) = 5
    /\ forecast_result = InsufficientData

\* C17: in every forecast month the published, rounded values satisfy
\* Conservative <= Moderate <= Optimistic, whatever the baseline and the
\* applied growth rate.
C17_ScenariosOrdered ==
    (ForecastDone /\ forecast_result.outcome = "forecast")
        => \A k \in 1..Len(forecast_result.forecast) :
              /\ forecast_result.forecast[k].conservative
                    <= forecast_result.forecast[k].moderate
              /\ forecast_result.forecast[k].moderate
                    <= forecast_result.forecast[k].optimistic

\* a forecast from a negative baseline, where the clamp is what orders the
\* scenarios: Conservative is brought down to Moderate, which falls from
\* month to month
C17_Witness ==
    /\ ForecastDone
    /\ forecast_result.outcome = "forecast"
    /\ forecast_result.historical_stats.baseline < 0
    /\ forecast_result.historical_stats.applied_growth > 0
    /\ forecast_result.forecast[3].conservative
          = forecast_result.forecast[3].moderate
    /\ forecast_result.forecast[3].moderate < forecast_result.forecast[1].moderate

\* the labels YYYY-MM of the calendar months of three years
CalendarLabels ==
    {ToString(year) \o "-" \o mm :
        year \in 2024..2026,
        mm \in {"01", "02", "03", "04", "05", "06",
                "07", "08", "09", "10", "11", "12"}}

\* the number of a calendar month, counted from the year 0
MonthNumber(yearmonth) == 12 * YearOf(yearmonth) + MonthOf(yearmonth)

LaterOf(a, b) == IF a < b THEN b ELSE a

C19_SameStoreSameOutput ==
    ForecastDone
        => \A current_yearmonth \in CurrentMonths :
              forecast_of(RemainingMonths, current_yearmonth) = forecast_result

\* the totals sheets of the workbook
TotalsSheets == categoryTotals \o megaCategoryTotals

\* C20: in the category and mega-category totals the percentage shares of
\* the rows sum to 100%, within the tolerance of rounding each to a tenth of
\* a percent, when the grand-total revenue is above zero; when it is zero,
\* every row, the total row included, shows a share of 0.
C20_SharesSumOrAreZero ==
    \A s \in 1..Len(TotalsSheets) :
        LET sheet == TotalsSheets[s]
        IN IF sheet.grand_total_revenue > 0
           THEN 2 * Abs(SumInts(sheet.percent) - 1000) <= Len(sheet.rows)
           ELSE /\ \A j \in 1..Len(sheet.percent) : sheet.percent[j] = 0
                /\ sheet.grand_total_percent = 0

\* the ratios of revenue the enhancer has written
WrittenRatios ==
    IF enhancerSheets = <<>> THEN <<>>
    ELSE enhancerSheets[1].service_analysis
         \o enhancerSheets[1].mega_category_analysis

\* C21: no aggregation ratio is undefined: every revenue contribution and
\* revenue share the enhancer writes is a number, and it is 0 for a group
\* without revenue, also when the total revenue is 0.
C21_RatiosAreDefined ==
    \A j \in 1..Len(WrittenRatios) :
        /\ WrittenRatios[j].ratio.t = "num"
        /\ WrittenRatios[j].revenue = 0 => WrittenRatios[j].ratio.n = 0

\* C22: a workbook whose Raw Data sheet is missing is reported as a failure
\* and is not taken for an empty store: the loader does not answer with an
\* empty key set, and the run classifies no captured appointment as new.
C22_UnreadableStoreIsFailure ==
    (/\ harness_output # NotApplied
     /\ harness_input.workbook.exists
     /\ ~harness_input.workbook.readable)
        => /\ harness_output.existing.answer = "failure"
           /\ harness_output.new_appointments = <<>>

\* the growth ratios of a stable period without those above 30% in absolute
\* value
RECURSIVE RatiosUpToSwing(_, _)
RatiosUpToSwing(recent_revenues, i) ==
    IF i > Len(recent_revenues) THEN <<>>
    ELSE LET prev == recent_revenues[i - 1]
             growth == Frac(recent_revenues[i] - prev, prev)
         IN (IF prev > 0
                /\ ~FracLess(Frac(3, 10), [n |-> Abs(growth.n), d |-> growth.d])
             THEN <<growth>> ELSE <<>>)
            \o RatiosUpToSwing(recent_revenues, i + 1)

\* the applied growth by the stated rule, in 1/10000
StatedGrowth(monthly_data) ==
    LET revenues == Strict([i \in 1..Len(monthly_data) |->
                               monthly_data[i].revenue])
        ratios == RatiosUpToSwing(TailOf(revenues, 9), 2)
        last_3_avg == MeanOf(TailOf(revenues, 3))
        last_6_avg == MeanOf(TailOf(revenues, 6))
        median == median_of_fracs(ratios)
    IN IF Len(ratios) >= 3
       THEN RoundRate(IF FracLess(Frac(3, 100), median) THEN Frac(3, 100)
                      ELSE IF FracLess(median, Frac(-3, 100)) THEN Frac(-3, 100)
                      ELSE median)
       ELSE IF FracLess(last_6_avg, last_3_avg) THEN 100
       ELSE IF FracLess(last_3_avg, FracMul(last_6_avg, Frac(95, 100)))
            THEN -100
       ELSE 0

\* C23: a growth ratio is discarded only when its absolute value exceeds 30%,
\* one of exactly 30% is kept; with three surviving ratios or more the
\* applied growth is their median clamped to [-3%, +3%], otherwise +1%, -1%
\* or 0% by the averages of the last 3 and 6 months; it is always within
\* [-3%, +3%].
C23_GrowthByStatedRule ==
    (ForecastDone /\ forecast_result.outcome = "forecast")
        => /\ forecast_result.historical_stats.applied_growth
                 = StatedGrowth(RemainingMonths)
           /\ forecast_result.historical_stats.applied_growth \in -300..300

\* the partial-month filter by the stated rule
StatedFilter(monthly_data) ==
    LET bookings == Strict([i \in 1..Len(monthly_data) |->
                               monthly_data[i].bookings])
        AtLeastHalfMedian(m) == 4 * m.bookings >= twice_median(bookings)
        kept == SelectSeq(monthly_data, AtLeastHalfMedian)
    IN IF Len(kept) < 3 THEN Tail(monthly_data) ELSE kept

\* C24: for every monthly sequence the filter drops each month whose
\* bookings are below half the median of all months and keeps every other
\* month, one at exactly half included; when fewer than three months
\* survive, only the earliest month is dropped instead.
C24_FilterByStatedRule ==
    ForecastDone => RemainingMonths = StatedFilter(forecast_input)

\* the baseline and the applied growth of the forecast from monthly data
BaselineOf(monthly_data) ==
    LET revenues == Strict([i \in 1..Len(monthly_data) |->
                               monthly_data[i].revenue])
    IN Frac(twice_median(TailOf(revenues, 9)), 2)

AppliedGrowthOf(monthly_data) ==
    LET revenues == Strict([i \in 1..Len(monthly_data) |->
                               monthly_data[i].revenue])
    IN capped_growth_of(recent_growth_rates(TailOf(revenues, 9), 2),
                        MeanOf(TailOf(revenues, 3)),
                        MeanOf(TailOf(revenues, 6)))

\* the three scenarios of the month m months ahead as the stated products
StatedScenarios(baseline, g, m) ==
    LET gm == FracMul(g, FracInt(m))
        times(multiplier) == RoundAmount(FracMul(baseline, multiplier))
    IN IF ~FracLess(g, FracInt(0))
       THEN [conservative |-> times(Frac(95, 100)),
             moderate |-> times(FracAdd(FracInt(1), gm)),
             optimistic |->
                 times(FracAdd(FracInt(1), FracMul(gm, Frac(3, 2))))]
       ELSE [conservative |->
                 times(FracAdd(FracInt(1), FracMul(gm, Frac(6, 5)))),
             moderate |-> times(FracInt(1)),
             optimistic |-> times(FracPow(Frac(102, 100), m))]

C26_BaselineOfRecentMonths ==
    (ForecastDone /\ forecast_result.outcome = "forecast")
        => /\ forecast_result.historical_stats.baseline
                  = RoundAmount(BaselineOf(RemainingMonths))
           /\ Len(RemainingMonths) > 9
                  => LET recent == forecast_summary(
                                       TailOf(RemainingMonths, 9), run_month)
                         stats == forecast_result.historical_stats
                     IN /\ recent.outcome = "forecast"
                        /\ recent.forecast = forecast_result.forecast
                        /\ recent.historical_stats.baseline = stats.baseline
                        /\ recent.historical_stats.median_growth
                               = stats.median_growth
                        /\ recent.historical_stats.applied_growth
                               = stats.applied_growth

\* a forecast from ten months or more whose oldest months would change the
\* median revenue and add a growth ratio
C26_Witness ==
    /\ ForecastDone
    /\ forecast_result.outcome = "forecast"
    /\ Len(RemainingMonths) > 9
    /\ LET revenues == Strict([i \in 1..Len(RemainingMonths) |->
                                   RemainingMonths[i].revenue])
       IN /\ twice_median(revenues) /= twice_median(TailOf(revenues, 9))
          /\ Len(recent_growth_rates(revenues, 2))
                 > Len(recent_growth_rates(TailOf(revenues, 9), 2))

\* the client analysis that a run on a store of clients has made
TieredClients ==
    IF harness_output.outcome = "client_analysis"
    THEN harness_output.clients ELSE {}

\* the column of the total spend of the tiered clients, in any order
RECURSIVE SpendColumn(_)
SpendColumn(clients) ==
    IF clients = {} THEN <<>>
    ELSE LET c == CHOOSE x \in clients : TRUE
         IN <<c.total_spent>> \o SpendColumn(clients \ {c})

TierRank(tier) ==
    CASE tier = "VIP" -> 4 [] tier = "Regular" -> 3
      [] tier = "Occasional" -> 2 [] tier = "New/Low" -> 1

\* C27: every client gets exactly one tier of VIP, Regular, Occasional and
\* New/Low, the first from the top whose threshold the total spend reaches
\* (the 80th, 50th and 20th percentile of the total spend of all clients),
\* so a client who spent at least as much as another never gets a lower
\* tier.
C27_TiersByFirstThreshold ==
    LET spend == SpendColumn(TieredClients)
        Reaches(c, num) == ~FracLess(FracInt(c.total_spent),
                                     quantile(spend, num))
    IN /\ \A c \in TieredClients :
             /\ c.tier \in {"VIP", "Regular", "Occasional", "New/Low"}
             /\ c.tier = "VIP" <=> Reaches(c, 8)
             /\ c.tier = "Regular" <=> (~Reaches(c, 8) /\ Reaches(c, 5))
             /\ c.tier = "Occasional" <=> (~Reaches(c, 5) /\ Reaches(c, 2))
             /\ c.tier = "New/Low" <=> ~Reaches(c, 2)
       /\ \A c, d \in TieredClients :
             /\ c.client = d.client => c = d
             /\ c.total_spent >= d.total_spent
                    => TierRank(c.tier) >= TierRank(d.tier)

\* a store of four clients of whom each is in another tier
C27_Witness ==
    /\ Cardinality(TieredClients) = 4
    /\ {c.tier : c \in TieredClients}
           = {"VIP", "Regular", "Occasional", "New/Low"}

\* C28: the classifier of the historical script and the classifier of the
\* daily script assign the same category to every service name: whichever
\* script has classified a name, the other script gives it the same category.
C28_SameCategoryInBothScripts ==
    classified.script /= "none"
        => /\ classified.category = daily_extract_category(classifier_input)
           /\ classified.category
                  = historical_extract_category(classifier_input)

\* the rows of the Weekly Summary that a run has made
WeeklyRows ==
    IF harness_output.outcome = "weekly_summary"
    THEN harness_output.weeks ELSE {}

\* the day number of the Monday of the week a date lies in
MondayOf(date) == to_ordinal(date) - (iso_weekday(date) - 1)

\* C29: each row of the Weekly Summary aggregates the appointments of one
\* calendar week: its Week End Date is at most 6 days after its Week Start
\* Date and lies in the same week, also for weeks at a turn of the year.
C29_RowIsOneWeek ==
    \A row \in WeeklyRows :
        /\ to_ordinal(row.week_end) - to_ordinal(row.week_start) \in 0..6
        /\ MondayOf(row.week_end) = MondayOf(row.week_start)

====
